---- MODULE Spec2Model ----
(***************************************************************************)
(* eval-go: metric wrappers, the pointwise-to-pairwise adapter and the     *)
(* evaluation runners (PairwiseEvaluation, PointwiseEvaluation, and the    *)
(* two versions of Evaluation that the repository holds).                  *)
(*                                                                         *)
(* Texts are opaque strings, scores are integers (the runners only copy    *)
(* scores; the score functions are modelled on integers).  A Go error is a *)
(* record; the Go nil error is Nil.  A slice is a sequence, and a function *)
(* that returns (nil, err) returns the empty sequence with that error.     *)
(***************************************************************************)
EXTENDS Integers, Sequences, FiniteSets, TLC

\* ---------------------------------------------------------------- bounds
MaxBatch == 2
MaxMetrics == 2

\* ---------------------------------------------------------------- values
Texts == {"a", "bb"}

TextLen(t) == IF t = "a" THEN 1 ELSE 2

MetricNames == {"m1", "m2"}

Nil == [type |-> "nil"]

Canceled == [type |-> "ctx", msg |-> "context canceled"]

DeadlineExceeded == [type |-> "ctx", msg |-> "context deadline exceeded"]

\* fmt.Errorf without %w
Errorf(msg) == [type |-> "errorf", msg |-> msg]

\* fmt.Errorf with two %d verbs
ErrorfCounts(msg, a, b) == [type |-> "errorf", msg |-> msg, a |-> a, b |-> b]

\* faulty variant of ErrorfWrap: the error is formatted with %v, which keeps
\* its text in the message and drops it as the cause
ErrorfWrapNoCause(prefix, name, err) ==
    [type |-> "errorf", prefix |-> prefix, name |-> name, cause |-> Nil]

\* fmt.Errorf("<prefix> %s failed: %w", name, err)
ErrorfWrap(prefix, name, err) ==
    [type |-> "wrap", prefix |-> prefix, name |-> name, cause |-> err]

\* the error a caller-supplied metric function reports
ComputeFailed == [type |-> "fn", msg |-> "compute failed"]

Instance(r, p) == [Reference |-> r, Prediction |-> p]

\* The runners treat texts as opaque, so their batches are the prefixes of
\* one sample data set whose neighbouring items differ: instances with equal
\* texts, a longer prediction and a shorter one, and predictions that differ
\* from the Prediction field of the instance at the same index.
SampleInstance(i) ==
    CASE i % 3 = 1 -> Instance("a", "a")
      [] i % 3 = 2 -> Instance("a", "bb")
      [] OTHER -> Instance("bb", "a")

SamplePrediction(i) == IF i % 2 = 1 THEN "bb" ELSE "a"

InstanceBatches == {[i \in 1..n |-> SampleInstance(i)] : n \in 0..MaxBatch}

PredictionBatches == {[i \in 1..n |-> SamplePrediction(i)] : n \in 0..MaxBatch}

\* all sequences over S of length at most n
SeqUpTo(S, n) == UNION {[1..k -> S] : k \in 0..n}

\* the outcome of a call: the returned slice, the returned error, and
\* whether the call ended in a run-time panic instead of returning
Return(scores, err) == [scores |-> scores, err |-> err, panic |-> FALSE]

Panic == [scores |-> <<>>, err |-> Nil, panic |-> TRUE]

\* ------------------------------------------ caller-supplied metric functions
\* A PairwiseMetricFunc is an arbitrary function of the caller.  The model
\* draws it from functions written the way the built-in ones are (one score
\* per reference, indexing predictions by the same index), one that reports
\* an error, and two that break the one-score-per-input contract.
PairwiseFuncs == {"exact", "lendiff", "fail", "short", "long"}

PairwiseScore(f, r, p) ==
    IF f = "lendiff" THEN TextLen(p) - TextLen(r)
    ELSE IF r = p THEN 1 ELSE 0

PairwiseMetricFunc(f, references, predictions) ==
    IF f = "fail" THEN Return(<<>>, ComputeFailed)
    ELSE IF Len(predictions) < Len(references) THEN Panic
    ELSE LET n == Len(references)
             all == [i \in 1..n |-> PairwiseScore(f, references[i], predictions[i])]
         IN  IF f = "short" THEN Return(SubSeq(all, 1, n - 1), Nil)
             ELSE IF f = "long" THEN Return(Append(all, 0), Nil)
             ELSE Return(all, Nil)

\* "picky" reports an error when one of its inputs is the text "bb"
PointwiseFuncs == {"len", "isa", "fail", "picky", "short", "long"}

PointwiseScore(f, p) ==
    IF f = "isa" THEN (IF p = "a" THEN 1 ELSE 0) ELSE TextLen(p)

PointwiseMetricFunc(f, predictions) ==
    IF f = "fail" THEN Return(<<>>, ComputeFailed)
    ELSE IF f = "picky" /\ \E i \in 1..Len(predictions) : predictions[i] = "bb"
    THEN Return(<<>>, ComputeFailed)
    ELSE LET n == Len(predictions)
             all == [i \in 1..n |-> PointwiseScore(f, predictions[i])]
         IN  IF f = "short" THEN Return(SubSeq(all, 1, n - 1), Nil)
             ELSE IF f = "long" THEN Return(Append(all, 0), Nil)
             ELSE Return(all, Nil)

\* ------------------------------------------------------------ metric wrappers
\* A wrapper's outcome also lists the calls made to the wrapped function.
Call(m, references, predictions) ==
    [name |-> m.Name, compute |-> m.compute,
     references |-> references, predictions |-> predictions]

WithCalls(o, calls) ==
    [scores |-> o.scores, err |-> o.err, panic |-> o.panic, calls |-> calls]

NewPairwiseMetric(name, description, compute) ==
    [Name |-> name, Description |-> description, compute |-> compute]

NewPointwiseMetric(name, description, compute) ==
    [Name |-> name, Description |-> description, compute |-> compute]

\* func (m *PairwiseMetric) Compute
PairwiseMetricCompute(m, c, references, predictions) ==
    IF c # Nil THEN WithCalls(Return(<<>>, c), <<>>)
    ELSE IF Len(references) = 0
    THEN WithCalls(Return(<<>>, Errorf("no references provided")), <<>>)
    ELSE IF Len(references) # Len(predictions)
    THEN WithCalls(Return(<<>>, ErrorfCounts(
             "number of references does not match number of predictions",
             Len(references), Len(predictions))), <<>>)
    ELSE WithCalls(PairwiseMetricFunc(m.compute, references, predictions),
                   <<Call(m, references, predictions)>>)

\* func (m *PointwiseMetric) Compute
PointwiseMetricCompute(m, c, predictions) ==
    IF c # Nil THEN WithCalls(Return(<<>>, c), <<>>)
    ELSE IF Len(predictions) = 0
    THEN WithCalls(Return(<<>>, Errorf("no predictions provided")), <<>>)
    ELSE WithCalls(PointwiseMetricFunc(m.compute, predictions),
                   <<Call(m, <<>>, predictions)>>)

\* eval.go: PairwiseMetric.Compute and PointwiseMetric.Compute are the
\* function-valued fields themselves, called without any wrapper
FieldPairwiseCompute(m, c, references, predictions) ==
    WithCalls(PairwiseMetricFunc(m.compute, references, predictions),
              <<Call(m, references, predictions)>>)

FieldPointwiseCompute(m, c, predictions) ==
    WithCalls(PointwiseMetricFunc(m.compute, predictions),
              <<Call(m, <<>>, predictions)>>)

\* ------------------------------------------------------------------- runners
\* the metrics runners are built from: every function under the name "m1",
\* and under "m2" a well-behaved function and the failing one, so that
\* runners hold metrics with equal and with different names ("picky" behaves
\* like "fail" on the sample predictions and is left to the adapter)
PairwisePool ==
    {NewPairwiseMetric("m1", "d", f) : f \in PairwiseFuncs}
        \cup {NewPairwiseMetric("m2", "d", f) : f \in {"exact", "fail"}}

PointwisePool ==
    {NewPointwiseMetric("m1", "d", f) : f \in PointwiseFuncs \ {"picky"}}
        \cup {NewPointwiseMetric("m2", "d", f) : f \in {"len", "fail"}}

NewPairwiseEvaluation(metrics) ==
    [kind |-> "PairwiseEvaluation", pairwiseMetrics |-> metrics,
     pointwiseMetrics |-> <<>>]

NewPointwiseEvaluation(metrics) ==
    [kind |-> "PointwiseEvaluation", pairwiseMetrics |-> <<>>,
     pointwiseMetrics |-> metrics]

\* evaluation.go
NewEvaluation(pairwiseMetrics, pointwiseMetrics) ==
    [kind |-> "Evaluation", pairwiseMetrics |-> pairwiseMetrics,
     pointwiseMetrics |-> pointwiseMetrics]

\* eval.go
NewEvaluationEvalGo(pairwiseMetrics, pointwiseMetrics) ==
    [kind |-> "EvaluationEvalGo", pairwiseMetrics |-> pairwiseMetrics,
     pointwiseMetrics |-> pointwiseMetrics]

VARIABLES
    e,            \* the runner Run is called on
    ctx,          \* ctx.Err(): Nil while the context is live
    instances,    \* Run's instances argument
    predictions,  \* Run's predictions (argument, or local of PairwiseEvaluation.Run)
    pc,           \* "idle", "loop", "returned", "panicked"
    references,   \* local: the references extracted from instances
    results,      \* local: the result records under construction
    mi,           \* local: position of the metric loops, 1-based
    ret,          \* what Run returned
    invoked       \* the calls made so far to the metrics' wrapped functions

runVars == <<e, ctx, instances, predictions, pc, references, results, mi, ret, invoked>>

\* the state of one conversion with ToPairwise and one Compute call on its result
VARIABLES
    tpM,               \* the PointwiseMetric variable ToPairwise is called on
    tpScoreFunc,       \* ToPairwise's scoreFunc argument
    tpMetric,          \* the PairwiseMetric ToPairwise returned
    tpCtx,             \* ctx.Err() of the context passed to Compute
    tpReferences,      \* Compute's references argument
    tpPredictions,     \* Compute's predictions argument
    tpPc,              \* "new", "converted", "closure", "refsDone", "returned", "panicked"
    tpReferenceScores, \* local of the closure: referenceScores
    tpRet,             \* what Compute returned
    tpCalls            \* the calls made so far to the pointwise metric's function

tpVars == <<tpM, tpScoreFunc, tpMetric, tpCtx, tpReferences, tpPredictions,
            tpPc, tpReferenceScores, tpRet, tpCalls>>

\* one direct call of a metric's Compute
VARIABLES
    cKind,        \* which Compute: "PairwiseMetric", "PointwiseMetric" (the
                  \* methods), "PairwiseField", "PointwiseField" (eval.go's fields)
    cM,           \* the metric
    cCtx,         \* ctx.Err() of the context passed to Compute
    cReferences,  \* Compute's references argument (none for a pointwise metric)
    cPredictions, \* Compute's predictions argument
    cPc,          \* "ready", "returned", "panicked"
    cRet          \* Compute's outcome, with the calls made to the function

callVars == <<cKind, cM, cCtx, cReferences, cPredictions, cPc, cRet>>

\* a caller's metric slices, a runner built from them, and the caller's later
\* writes through its own slices
VARIABLES
    sKind,      \* which constructor: the kind of runner built
    sHeap,      \* the backing arrays: "pairwise" and "pointwise"
    sPairwise,  \* the caller's pairwiseMetrics slice: [array, len]
    sPointwise, \* the caller's pointwiseMetrics slice: [array, len]
    sRunner,    \* the runner the constructor returned
    sBuilt,     \* the metrics the slices held when the constructor was called
    sPc,        \* "new", "built", "ran"
    sExecuted   \* the metrics the last Run called, in call order

sliceVars == <<sKind, sHeap, sPairwise, sPointwise, sRunner, sBuilt, sPc, sExecuted>>

\* two Run calls on one runner, each in its own goroutine
VARIABLES
    gE,      \* the runner both calls are made on
    gCalls,  \* per goroutine: Run's arguments, locals, position and return value
    gHeap    \* the maps allocated by make(map[string]float64), by address

concVars == <<gE, gCalls, gHeap>>

\* one call of a built-in PairwiseScoreFunc
VARIABLES
    fFunc,  \* the function called
    fR,     \* referenceScore
    fP,     \* predictionScore
    fPc,    \* "ready", "returned"
    fOut    \* the value returned

scoreVars == <<fFunc, fR, fP, fPc, fOut>>

\* history kept for statements about an earlier moment
VARIABLES
    hHeld,  \* the metric the caller's variable held when ToPairwise was called
    hFirst  \* what the first of two Run calls returned

histVars == <<hHeld, hFirst>>

\* the variables of the specifications other than Spec and AdapterSpec
extVars == <<callVars, sliceVars, concVars, scoreVars, histVars>>

vars == <<runVars, tpVars, extVars>>

NoMetric == [Name |-> "", Description |-> "", compute |-> "none"]

NoOutcome == [scores |-> <<>>, err |-> Nil, panic |-> FALSE]

NoReturn == [nil |-> TRUE, results |-> <<>>, err |-> Nil]

\* no Run call
RunIdle ==
    /\ e = NewPairwiseEvaluation(<<>>)
    /\ ctx = Nil
    /\ instances = <<>>
    /\ predictions = <<>>
    /\ pc = "unused"
    /\ references = <<>>
    /\ results = <<>>
    /\ mi = 1
    /\ ret = NoReturn
    /\ invoked = <<>>

\* no conversion
TpIdle ==
    /\ tpM = NewPointwiseMetric("m1", "d", "len")
    /\ tpScoreFunc = "DifferenceScore"
    /\ tpMetric = NoMetric
    /\ tpCtx = Nil
    /\ tpReferences = <<>>
    /\ tpPredictions = <<>>
    /\ tpPc = "unused"
    /\ tpReferenceScores = <<>>
    /\ tpRet = NoOutcome
    /\ tpCalls = <<>>

\* no direct Compute call
CallIdle ==
    /\ cKind = "PairwiseMetric"
    /\ cM = NoMetric
    /\ cCtx = Nil
    /\ cReferences = <<>>
    /\ cPredictions = <<>>
    /\ cPc = "unused"
    /\ cRet = WithCalls(NoOutcome, <<>>)

\* no runner under construction
SliceIdle ==
    /\ sKind = "PairwiseEvaluation"
    /\ sHeap = [pairwise |-> <<>>, pointwise |-> <<>>]
    /\ sPairwise = [array |-> "pairwise", len |-> 0]
    /\ sPointwise = [array |-> "pointwise", len |-> 0]
    /\ sRunner = NewPairwiseEvaluation(<<>>)
    /\ sBuilt = <<>>
    /\ sPc = "unused"
    /\ sExecuted = <<>>

\* no concurrent calls
ConcIdle ==
    /\ gE = NewPairwiseEvaluation(<<>>)
    /\ gCalls = <<>>
    /\ gHeap = <<>>

\* no score function call
ScoreIdle ==
    /\ fFunc = "none"
    /\ fR = 0
    /\ fP = 0
    /\ fPc = "unused"
    /\ fOut = 0

HistIdle ==
    /\ hHeld = NoMetric
    /\ hFirst = NoReturn

ExtIdle == CallIdle /\ SliceIdle /\ ConcIdle /\ ScoreIdle /\ HistIdle

\* faulty variant of MapPut: a key that is present keeps its value
MapPutIfAbsent(m, name, score) ==
    [x \in (DOMAIN m) \cup {name} |-> IF x \in DOMAIN m THEN m[x] ELSE score]

\* results[i].MetricResults[name] = score
MapPut(m, name, score) ==
    [x \in (DOMAIN m) \cup {name} |-> IF x = name THEN score ELSE m[x]]

EmptyMap == [x \in {} |-> 0]

\* faulty variant of NewResult: the record is seeded with the instance's
\* fields in the wrong places
NewResultSwapped(instance) ==
    [Instance |-> Instance(instance.Prediction, instance.Reference),
     MetricResults |-> EmptyMap]

NewResult(instance) == [Instance |-> instance, MetricResults |-> EmptyMap]

NewPointwiseResult(prediction) ==
    [Prediction |-> prediction, MetricResults |-> EmptyMap]

\* faulty variant of StoreScores: an entry already stored under the name is
\* kept
StoreScoresKeepingFirst(rs, name, scores) ==
    [i \in 1..Len(rs) |->
        IF i <= Len(scores) /\ name \notin DOMAIN rs[i].MetricResults
        THEN [rs[i] EXCEPT !.MetricResults = MapPut(@, name, scores[i])]
        ELSE rs[i]]

\* for i, score := range scores { results[i].MetricResults[name] = score }
\* (the writes made before an index goes out of range are kept)
StoreScores(rs, name, scores) ==
    [i \in 1..Len(rs) |->
        IF i <= Len(scores)
        THEN [rs[i] EXCEPT !.MetricResults = MapPut(@, name, scores[i])]
        ELSE rs[i]]

\* return nil, err
ReturnError(err) ==
    /\ pc' = "returned"
    /\ ret' = [nil |-> TRUE, results |-> <<>>, err |-> err]

\* return results, nil
ReturnResults ==
    /\ pc' = "returned"
    /\ ret' = [nil |-> FALSE, results |-> results, err |-> Nil]

\* faulty variant of LoopBody: on a metric failure the results built so far
\* are returned along with the error
LoopBodyPartialResults(prefix, name, o) ==
    /\ invoked' = invoked \o o.calls
    /\ IF o.panic
       THEN /\ pc' = "panicked"
            /\ UNCHANGED <<results, mi, ret>>
       ELSE IF o.err # Nil
       THEN /\ pc' = "returned"
            /\ ret' = [nil |-> FALSE, results |-> results,
                       err |-> ErrorfWrap(prefix, name, o.err)]
            /\ UNCHANGED <<results, mi>>
       ELSE /\ results' = StoreScores(results, name, o.scores)
            /\ IF Len(o.scores) > Len(results)
               THEN pc' = "panicked" /\ UNCHANGED mi
               ELSE pc' = "loop" /\ mi' = mi + 1
            /\ UNCHANGED ret
    /\ UNCHANGED <<e, ctx, instances, predictions, references>>
    /\ UNCHANGED <<tpVars, extVars>>

\* faulty variant of LoopBody: a failed Compute call is made a second time
\* before the error is returned
LoopBodyRetrying(prefix, name, o) ==
    /\ invoked' = (IF ~o.panic /\ o.err # Nil
                   THEN invoked \o o.calls \o o.calls ELSE invoked \o o.calls)
    /\ IF o.panic
       THEN /\ pc' = "panicked"
            /\ UNCHANGED <<results, mi, ret>>
       ELSE IF o.err # Nil
       THEN /\ ReturnError(ErrorfWrap(prefix, name, o.err))
            /\ UNCHANGED <<results, mi>>
       ELSE /\ results' = StoreScores(results, name, o.scores)
            /\ IF Len(o.scores) > Len(results)
               THEN pc' = "panicked" /\ UNCHANGED mi
               ELSE pc' = "loop" /\ mi' = mi + 1
            /\ UNCHANGED ret
    /\ UNCHANGED <<e, ctx, instances, predictions, references>>
    /\ UNCHANGED <<tpVars, extVars>>

\* one iteration of a metric loop whose Compute call had outcome o:
\* return the wrapped error, or store the scores and move to the next metric
LoopBody(prefix, name, o) ==
    /\ invoked' = invoked \o o.calls
    /\ IF o.panic
       THEN /\ pc' = "panicked"
            /\ UNCHANGED <<results, mi, ret>>
       ELSE IF o.err # Nil
       THEN /\ ReturnError(ErrorfWrap(prefix, name, o.err))
            /\ UNCHANGED <<results, mi>>
       ELSE /\ results' = StoreScores(results, name, o.scores)
            /\ IF Len(o.scores) > Len(results)
               THEN pc' = "panicked" /\ UNCHANGED mi
               ELSE pc' = "loop" /\ mi' = mi + 1
            /\ UNCHANGED ret
    /\ UNCHANGED <<e, ctx, instances, predictions, references>>
    /\ UNCHANGED <<tpVars, extVars>>

\* ---- PairwiseEvaluation.Run
\* faulty variant of PairwiseRunStart: the context is not checked
PairwiseRunStartNoCtxCheck ==
    /\ pc = "idle" /\ e.kind = "PairwiseEvaluation"
    /\ IF Len(instances) = 0
       THEN /\ ReturnError(Errorf("no instances provided"))
            /\ UNCHANGED <<predictions, references, results>>
       ELSE /\ references' = [i \in 1..Len(instances) |-> instances[i].Reference]
            /\ predictions' = [i \in 1..Len(instances) |-> instances[i].Prediction]
            /\ results' = [i \in 1..Len(instances) |-> NewResult(instances[i])]
            /\ pc' = "loop"
            /\ UNCHANGED ret
    /\ UNCHANGED <<e, ctx, instances, mi, invoked>>
    /\ UNCHANGED <<tpVars, extVars>>

PairwiseRunStart ==
    /\ pc = "idle" /\ e.kind = "PairwiseEvaluation"
    /\ IF ctx # Nil
       THEN ReturnError(ctx) /\ UNCHANGED <<predictions, references, results>>
       ELSE IF Len(instances) = 0
       THEN /\ ReturnError(Errorf("no instances provided"))
            /\ UNCHANGED <<predictions, references, results>>
       ELSE /\ references' = [i \in 1..Len(instances) |-> instances[i].Reference]
            /\ predictions' = [i \in 1..Len(instances) |-> instances[i].Prediction]
            /\ results' = [i \in 1..Len(instances) |-> NewResult(instances[i])]
            /\ pc' = "loop"
            /\ UNCHANGED ret
    /\ UNCHANGED <<e, ctx, instances, mi, invoked>>
    /\ UNCHANGED <<tpVars, extVars>>

\* faulty variant of PairwiseRunMetric: the metrics are taken last to first
PairwiseRunMetricReversed ==
    /\ pc = "loop" /\ e.kind = "PairwiseEvaluation"
    /\ mi <= Len(e.pairwiseMetrics)
    /\ LET metric == e.pairwiseMetrics[Len(e.pairwiseMetrics) - mi + 1]
       IN  LoopBody("metric", metric.Name,
                    PairwiseMetricCompute(metric, ctx, references, predictions))

PairwiseRunMetric ==
    /\ pc = "loop" /\ e.kind = "PairwiseEvaluation"
    /\ mi <= Len(e.pairwiseMetrics)
    /\ LET metric == e.pairwiseMetrics[mi]
       IN  LoopBody("metric", metric.Name,
                    PairwiseMetricCompute(metric, ctx, references, predictions))

\* faulty variant of PairwiseRunReturn: the runner's metric list is emptied
\* as Run returns
PairwiseRunReturnDrainingMetrics ==
    /\ pc = "loop" /\ e.kind = "PairwiseEvaluation"
    /\ mi > Len(e.pairwiseMetrics)
    /\ ReturnResults
    /\ e' = [e EXCEPT !.pairwiseMetrics = <<>>]
    /\ UNCHANGED <<ctx, instances, predictions, references, results, mi, invoked>>
    /\ UNCHANGED <<tpVars, extVars>>

PairwiseRunReturn ==
    /\ pc = "loop" /\ e.kind = "PairwiseEvaluation"
    /\ mi > Len(e.pairwiseMetrics)
    /\ ReturnResults
    /\ UNCHANGED <<e, ctx, instances, predictions, references, results, mi, invoked>>
    /\ UNCHANGED <<tpVars, extVars>>

\* ---- PointwiseEvaluation.Run
PointwiseRunStart ==
    /\ pc = "idle" /\ e.kind = "PointwiseEvaluation"
    /\ IF ctx # Nil
       THEN ReturnError(ctx) /\ UNCHANGED results
       ELSE IF Len(predictions) = 0
       THEN ReturnError(Errorf("no predictions provided")) /\ UNCHANGED results
       ELSE /\ results' = [i \in 1..Len(predictions) |->
                              NewPointwiseResult(predictions[i])]
            /\ pc' = "loop"
            /\ UNCHANGED ret
    /\ UNCHANGED <<e, ctx, instances, predictions, references, mi, invoked>>
    /\ UNCHANGED <<tpVars, extVars>>

PointwiseRunMetric ==
    /\ pc = "loop" /\ e.kind = "PointwiseEvaluation"
    /\ mi <= Len(e.pointwiseMetrics)
    /\ LET metric == e.pointwiseMetrics[mi]
       IN  LoopBody("metric", metric.Name,
                    PointwiseMetricCompute(metric, ctx, predictions))

PointwiseRunReturn ==
    /\ pc = "loop" /\ e.kind = "PointwiseEvaluation"
    /\ mi > Len(e.pointwiseMetrics)
    /\ ReturnResults
    /\ UNCHANGED <<e, ctx, instances, predictions, references, results, mi, invoked>>
    /\ UNCHANGED <<tpVars, extVars>>

\* ---- Evaluation.Run (evaluation.go)
\* faulty variant of EvaluationRunStart: the batch is validated before the
\* context is looked at
EvaluationRunStartValidatingFirst ==
    /\ pc = "idle" /\ e.kind = "Evaluation"
    /\ IF Len(instances) = 0
       THEN /\ ReturnError(Errorf("no instances provided"))
            /\ UNCHANGED <<references, results>>
       ELSE IF Len(instances) # Len(predictions)
       THEN /\ ReturnError(ErrorfCounts(
                   "number of instances does not match number of predictions",
                   Len(instances), Len(predictions)))
            /\ UNCHANGED <<references, results>>
       ELSE IF ctx # Nil
       THEN ReturnError(ctx) /\ UNCHANGED <<references, results>>
       ELSE /\ references' = [i \in 1..Len(instances) |-> instances[i].Reference]
            /\ results' = [i \in 1..Len(instances) |-> NewResult(instances[i])]
            /\ pc' = "loop"
            /\ UNCHANGED ret
    /\ UNCHANGED <<e, ctx, instances, predictions, mi, invoked>>
    /\ UNCHANGED <<tpVars, extVars>>

EvaluationRunStart ==
    /\ pc = "idle" /\ e.kind = "Evaluation"
    /\ IF ctx # Nil
       THEN ReturnError(ctx) /\ UNCHANGED <<references, results>>
       ELSE IF Len(instances) = 0
       THEN /\ ReturnError(Errorf("no instances provided"))
            /\ UNCHANGED <<references, results>>
       ELSE IF Len(instances) # Len(predictions)
       THEN /\ ReturnError(ErrorfCounts(
                   "number of instances does not match number of predictions",
                   Len(instances), Len(predictions)))
            /\ UNCHANGED <<references, results>>
       ELSE /\ references' = [i \in 1..Len(instances) |-> instances[i].Reference]
            /\ results' = [i \in 1..Len(instances) |-> NewResult(instances[i])]
            /\ pc' = "loop"
            /\ UNCHANGED ret
    /\ UNCHANGED <<e, ctx, instances, predictions, mi, invoked>>
    /\ UNCHANGED <<tpVars, extVars>>

\* faulty variant of EvaluationRunPairwiseMetric: the pairwise metrics are
\* given the predictions stored in the instances
EvaluationRunPairwiseMetricOwnPredictions ==
    /\ pc = "loop" /\ e.kind = "Evaluation"
    /\ mi <= Len(e.pairwiseMetrics)
    /\ LET metric == e.pairwiseMetrics[mi]
       IN  LoopBody("pairwise metric", metric.Name,
                    PairwiseMetricCompute(metric, ctx, references,
                        [i \in 1..Len(instances) |-> instances[i].Prediction]))

EvaluationRunPairwiseMetric ==
    /\ pc = "loop" /\ e.kind = "Evaluation"
    /\ mi <= Len(e.pairwiseMetrics)
    /\ LET metric == e.pairwiseMetrics[mi]
       IN  LoopBody("pairwise metric", metric.Name,
                    PairwiseMetricCompute(metric, ctx, references, predictions))

EvaluationRunPointwiseMetric ==
    /\ pc = "loop" /\ e.kind = "Evaluation"
    /\ mi > Len(e.pairwiseMetrics)
    /\ mi <= Len(e.pairwiseMetrics) + Len(e.pointwiseMetrics)
    /\ LET metric == e.pointwiseMetrics[mi - Len(e.pairwiseMetrics)]
       IN  LoopBody("pointwise metric", metric.Name,
                    PointwiseMetricCompute(metric, ctx, predictions))

EvaluationRunReturn ==
    /\ pc = "loop" /\ e.kind = "Evaluation"
    /\ mi > Len(e.pairwiseMetrics) + Len(e.pointwiseMetrics)
    /\ ReturnResults
    /\ UNCHANGED <<e, ctx, instances, predictions, references, results, mi, invoked>>
    /\ UNCHANGED <<tpVars, extVars>>

\* ---- Evaluation.Run (eval.go): no batch validation, the metrics' Compute
\* fields are called directly, and the number of scores is checked
CheckedLoopBody(prefix, name, o, expected) ==
    IF ~o.panic /\ o.err = Nil /\ Len(o.scores) # expected
    THEN /\ invoked' = invoked \o o.calls
         /\ ReturnError([type |-> "errorf", prefix |-> prefix, name |-> name,
                         msg |-> "returned %d scores, expected %d",
                         a |-> Len(o.scores), b |-> expected])
         /\ UNCHANGED <<e, ctx, instances, predictions, references, results, mi>>
         /\ UNCHANGED <<tpVars, extVars>>
    ELSE LoopBody(prefix, name, o)

EvalGoRunStart ==
    /\ pc = "idle" /\ e.kind = "EvaluationEvalGo"
    /\ IF ctx # Nil
       THEN ReturnError(ctx) /\ UNCHANGED <<references, results>>
       ELSE /\ references' = [i \in 1..Len(instances) |-> instances[i].Reference]
            /\ results' = [i \in 1..Len(instances) |-> NewResult(instances[i])]
            /\ pc' = "loop"
            /\ UNCHANGED ret
    /\ UNCHANGED <<e, ctx, instances, predictions, mi, invoked>>
    /\ UNCHANGED <<tpVars, extVars>>

EvalGoRunPairwiseMetric ==
    /\ pc = "loop" /\ e.kind = "EvaluationEvalGo"
    /\ mi <= Len(e.pairwiseMetrics)
    /\ LET metric == e.pairwiseMetrics[mi]
       IN  CheckedLoopBody("pairwise metric", metric.Name,
                    FieldPairwiseCompute(metric, ctx, references, predictions),
                    Len(instances))

EvalGoRunPointwiseMetric ==
    /\ pc = "loop" /\ e.kind = "EvaluationEvalGo"
    /\ mi > Len(e.pairwiseMetrics)
    /\ mi <= Len(e.pairwiseMetrics) + Len(e.pointwiseMetrics)
    /\ LET metric == e.pointwiseMetrics[mi - Len(e.pairwiseMetrics)]
       IN  CheckedLoopBody("pointwise metric", metric.Name,
                    FieldPointwiseCompute(metric, ctx, predictions),
                    Len(predictions))

EvalGoRunReturn ==
    /\ pc = "loop" /\ e.kind = "EvaluationEvalGo"
    /\ mi > Len(e.pairwiseMetrics) + Len(e.pointwiseMetrics)
    /\ ReturnResults
    /\ UNCHANGED <<e, ctx, instances, predictions, references, results, mi, invoked>>
    /\ UNCHANGED <<tpVars, extVars>>

\* ---- the caller's context is cancelled, or its deadline passes, while Run
\* is between two metrics
Cancel ==
    /\ pc = "loop" /\ ctx = Nil
    /\ ctx' \in {Canceled, DeadlineExceeded}
    /\ UNCHANGED <<e, instances, predictions, pc, references, results, mi, ret, invoked>>
    /\ UNCHANGED <<tpVars, extVars>>

\* ------------------------------------------------------------- specification
Runners ==
    {NewPairwiseEvaluation(ms) : ms \in SeqUpTo(PairwisePool, MaxMetrics)}
    \cup {NewPointwiseEvaluation(ms) : ms \in SeqUpTo(PointwisePool, MaxMetrics)}
    \cup UNION {{NewEvaluation(pw, pt), NewEvaluationEvalGo(pw, pt)} :
                  <<pw, pt>> \in {x \in SeqUpTo(PairwisePool, MaxMetrics)
                                        \X SeqUpTo(PointwisePool, MaxMetrics) :
                                     Len(x[1]) + Len(x[2]) <= MaxMetrics}}

Init ==
    /\ e \in Runners
    /\ ctx \in {Nil, Canceled, DeadlineExceeded}
    /\ instances \in IF e.kind = "PointwiseEvaluation" THEN {<<>>}
                     ELSE InstanceBatches
    /\ predictions \in IF e.kind = "PairwiseEvaluation" THEN {<<>>}
                       ELSE PredictionBatches
    /\ pc = "idle"
    /\ references = <<>>
    /\ results = <<>>
    /\ mi = 1
    /\ ret = NoReturn
    /\ invoked = <<>>
    /\ tpM = NewPointwiseMetric("m1", "d", "len")
    /\ tpScoreFunc = "DifferenceScore"
    /\ tpMetric = NoMetric
    /\ tpCtx = Nil
    /\ tpReferences = <<>>
    /\ tpPredictions = <<>>
    /\ tpPc = "unused"
    /\ tpReferenceScores = <<>>
    /\ tpRet = NoOutcome
    /\ tpCalls = <<>>
    /\ ExtIdle

Next ==
    \/ PairwiseRunStart \/ PairwiseRunMetric \/ PairwiseRunReturn
    \/ PointwiseRunStart \/ PointwiseRunMetric \/ PointwiseRunReturn
    \/ EvaluationRunStart \/ EvaluationRunPairwiseMetric
    \/ EvaluationRunPointwiseMetric \/ EvaluationRunReturn
    \/ EvalGoRunStart \/ EvalGoRunPairwiseMetric
    \/ EvalGoRunPointwiseMetric \/ EvalGoRunReturn
    \/ Cancel

Spec == Init /\ [][Next]_vars

\* ------------------------------------------- pointwise-to-pairwise adapter
\* ---- float64, scaled down: a binary floating-point format with a two-bit
\* fraction, written in units of its smallest subnormal (One is 1.0).  The
\* magnitudes below are all its finite values; the two zeros are one value
\* (they compare equal); PosInf is the value an overflow rounds to.
FMags == {0, 1, 2, 3, 4, 5, 6, 7, 8, 10, 12, 14, 16, 20, 24, 28}

PosInf == 32

NegInf == -32

NaN == 64

One == 4

Two == 8

Floats == FMags \cup {-m : m \in FMags} \cup {PosInf, NegInf, NaN}

\* the position of a magnitude in the format: its parity is the last
\* fraction bit
FIndex(f) == Cardinality({g \in FMags : g < f})

\* round-to-nearest, ties-to-even, of the magnitude num/den
RoundMag(num, den) ==
    LET below == {f \in FMags : f * den <= num}
        above == {f \in FMags \cup {PosInf} : f * den >= num}
        lo == CHOOSE f \in below : \A g \in below : g <= f
        hi == IF above = {} THEN PosInf
              ELSE CHOOSE f \in above : \A g \in above : f <= g
    IN  IF 2 * num < (lo + hi) * den THEN lo
        ELSE IF 2 * num > (lo + hi) * den THEN hi
        ELSE IF FIndex(lo) % 2 = 0 THEN lo ELSE hi

Round(num, den) ==
    IF num >= 0 THEN RoundMag(num, den) ELSE -RoundMag(-num, den)

IsInf(x) == x \in {PosInf, NegInf}

FNeg(a) == IF a = NaN THEN NaN ELSE -a

FAdd(a, b) ==
    IF a = NaN \/ b = NaN THEN NaN
    ELSE IF IsInf(a) /\ IsInf(b) THEN (IF a = b THEN a ELSE NaN)
    ELSE IF IsInf(a) THEN a
    ELSE IF IsInf(b) THEN b
    ELSE Round(a + b, 1)

FSub(a, b) == FAdd(a, FNeg(b))

FDiv(a, b) ==
    LET neg == (a < 0) # (b < 0)
        abs(x) == IF x < 0 THEN -x ELSE x
    IN  IF a = NaN \/ b = NaN THEN NaN
        ELSE IF IsInf(a) THEN (IF IsInf(b) THEN NaN
                               ELSE IF neg THEN NegInf ELSE PosInf)
        ELSE IF IsInf(b) THEN 0
        ELSE IF b = 0 THEN (IF a = 0 THEN NaN
                            ELSE IF a < 0 THEN NegInf ELSE PosInf)
        ELSE IF neg THEN -RoundMag(One * abs(a), abs(b))
        ELSE RoundMag(One * abs(a), abs(b))

\* faulty variant of DifferenceScore: the operands are swapped
DifferenceScoreSwapped(referenceScore, predictionScore) ==
    referenceScore - predictionScore

DifferenceScore(referenceScore, predictionScore) ==
    FSub(predictionScore, referenceScore)

\* faulty variant of RatioScore: the zero guard is missing
RatioScoreUnguarded(referenceScore, predictionScore) ==
    FDiv(predictionScore, referenceScore)

RatioScore(referenceScore, predictionScore) ==
    IF referenceScore = 0 THEN 0
    ELSE FDiv(predictionScore, referenceScore)

\* faulty variant of AverageScore: only the reference score is halved
AverageScoreHalvingReference(referenceScore, predictionScore) ==
    FAdd(FDiv(referenceScore, Two), predictionScore)

AverageScore(referenceScore, predictionScore) ==
    FDiv(FAdd(referenceScore, predictionScore), Two)

\* a < b on float64: false when an operand is NaN
FLess(a, b) == a # NaN /\ b # NaN /\ a < b

\* faulty variant of AbsoluteDifferenceScore: a negative difference is
\* returned as it is
AbsoluteDifferenceScoreSigned(referenceScore, predictionScore) ==
    FSub(predictionScore, referenceScore)

AbsoluteDifferenceScore(referenceScore, predictionScore) ==
    LET diff == FSub(predictionScore, referenceScore)
    IN  IF FLess(diff, 0) THEN FNeg(diff) ELSE diff

MaxScore(referenceScore, predictionScore) ==
    IF FLess(predictionScore, referenceScore) THEN referenceScore
    ELSE predictionScore

MinScore(referenceScore, predictionScore) ==
    IF FLess(referenceScore, predictionScore) THEN referenceScore
    ELSE predictionScore

\* a caller's own PairwiseScoreFunc (README: a weighted sum of the two scores)
WeightedScore(referenceScore, predictionScore) ==
    3 * referenceScore + 7 * predictionScore

ScoreFuncs ==
    {"DifferenceScore", "AbsoluteDifferenceScore", "MaxScore", "MinScore",
     "WeightedScore"}

\* scoreFunc(referenceScore, predictionScore)
ApplyScoreFunc(scoreFunc, referenceScore, predictionScore) ==
    CASE scoreFunc = "DifferenceScore" ->
            DifferenceScore(referenceScore, predictionScore)
      [] scoreFunc = "AbsoluteDifferenceScore" ->
            AbsoluteDifferenceScore(referenceScore, predictionScore)
      [] scoreFunc = "MaxScore" -> MaxScore(referenceScore, predictionScore)
      [] scoreFunc = "MinScore" -> MinScore(referenceScore, predictionScore)
      [] OTHER -> WeightedScore(referenceScore, predictionScore)

PointwiseMetrics ==
    {NewPointwiseMetric(n, d, f) :
        n \in MetricNames, d \in {"d1", "d2"}, f \in PointwiseFuncs}

\* func (m *PointwiseMetric) ToPairwise: the name and the description are
\* copied; the closure keeps the pointer m and scoreFunc (hHeld remembers
\* what m pointed to at this moment)
ToPairwise ==
    /\ tpPc = "new"
    /\ tpMetric' = NewPairwiseMetric(tpM.Name, tpM.Description,
                       [closure |-> "ToPairwise", m |-> "tpM",
                        scoreFunc |-> tpScoreFunc])
    /\ tpPc' = "converted"
    /\ hHeld' = tpM
    /\ UNCHANGED <<tpM, tpScoreFunc, tpCtx, tpReferences, tpPredictions,
                   tpReferenceScores, tpRet, tpCalls>>
    /\ UNCHANGED <<runVars, callVars, sliceVars, concVars, scoreVars, hFirst>>

\* return nil, err out of the adapted metric's Compute
TpReturnError(err) ==
    /\ tpPc' = "returned"
    /\ tpRet' = Return(<<>>, err)

\* PairwiseMetric.Compute on the adapted metric, up to the call of the closure
ToPairwiseCompute ==
    /\ tpPc = "converted"
    /\ IF tpCtx # Nil THEN TpReturnError(tpCtx)
       ELSE IF Len(tpReferences) = 0
       THEN TpReturnError(Errorf("no references provided"))
       ELSE IF Len(tpReferences) # Len(tpPredictions)
       THEN TpReturnError(ErrorfCounts(
                "number of references does not match number of predictions",
                Len(tpReferences), Len(tpPredictions)))
       ELSE tpPc' = "closure" /\ UNCHANGED tpRet
    /\ UNCHANGED <<tpM, tpScoreFunc, tpMetric, tpCtx, tpReferences,
                   tpPredictions, tpReferenceScores, tpCalls>>
    /\ UNCHANGED <<runVars, extVars>>

\* faulty variant of ClosureReferenceScores: the error of the call on
\* references is dropped and the closure goes on to the predictions
ClosureReferenceScoresIgnoringError ==
    /\ tpPc = "closure"
    /\ LET o == PointwiseMetricCompute(tpM, tpCtx, tpReferences)
       IN  /\ tpCalls' = tpCalls \o o.calls
           /\ IF o.panic
              THEN tpPc' = "panicked" /\ UNCHANGED <<tpReferenceScores, tpRet>>
              ELSE /\ tpReferenceScores' = o.scores
                   /\ tpPc' = "refsDone"
                   /\ UNCHANGED tpRet
    /\ UNCHANGED <<tpM, tpScoreFunc, tpMetric, tpCtx, tpReferences, tpPredictions>>
    /\ UNCHANGED <<runVars, extVars>>

\* the closure: referenceScores, err := m.Compute(ctx, references)
ClosureReferenceScores ==
    /\ tpPc = "closure"
    /\ LET o == PointwiseMetricCompute(tpM, tpCtx, tpReferences)
       IN  /\ tpCalls' = tpCalls \o o.calls
           /\ IF o.panic
              THEN tpPc' = "panicked" /\ UNCHANGED <<tpReferenceScores, tpRet>>
              ELSE IF o.err # Nil
              THEN TpReturnError(o.err) /\ UNCHANGED tpReferenceScores
              ELSE /\ tpReferenceScores' = o.scores
                   /\ tpPc' = "refsDone"
                   /\ UNCHANGED tpRet
    /\ UNCHANGED <<tpM, tpScoreFunc, tpMetric, tpCtx, tpReferences, tpPredictions>>
    /\ UNCHANGED <<runVars, extVars>>

\* faulty variant of ClosurePredictionScores: scoreFunc gets the prediction
\* score first
ClosurePredictionScoresSwapped ==
    /\ tpPc = "refsDone"
    /\ LET o == PointwiseMetricCompute(tpM, tpCtx, tpPredictions)
           n == Len(tpReferences)
       IN  /\ tpCalls' = tpCalls \o o.calls
           /\ IF o.panic
              THEN tpPc' = "panicked" /\ UNCHANGED tpRet
              ELSE IF o.err # Nil
              THEN TpReturnError(o.err)
              ELSE IF Len(tpReferenceScores) < n \/ Len(o.scores) < n
              THEN tpPc' = "panicked" /\ UNCHANGED tpRet
              ELSE /\ tpPc' = "returned"
                   /\ tpRet' = Return(
                          [i \in 1..n |-> ApplyScoreFunc(tpMetric.compute.scoreFunc,
                                              o.scores[i], tpReferenceScores[i])],
                          Nil)
    /\ UNCHANGED <<tpM, tpScoreFunc, tpMetric, tpCtx, tpReferences,
                   tpPredictions, tpReferenceScores>>
    /\ UNCHANGED <<runVars, extVars>>

\* the closure: predictionScores, err := m.Compute(ctx, predictions), then
\* scores[i] = scoreFunc(referenceScores[i], predictionScores[i]) for every
\* index of references
ClosurePredictionScores ==
    /\ tpPc = "refsDone"
    /\ LET o == PointwiseMetricCompute(tpM, tpCtx, tpPredictions)
           n == Len(tpReferences)
       IN  /\ tpCalls' = tpCalls \o o.calls
           /\ IF o.panic
              THEN tpPc' = "panicked" /\ UNCHANGED tpRet
              ELSE IF o.err # Nil
              THEN TpReturnError(o.err)
              ELSE IF Len(tpReferenceScores) < n \/ Len(o.scores) < n
              THEN tpPc' = "panicked" /\ UNCHANGED tpRet
              ELSE /\ tpPc' = "returned"
                   /\ tpRet' = Return(
                          [i \in 1..n |-> ApplyScoreFunc(tpMetric.compute.scoreFunc,
                                              tpReferenceScores[i], o.scores[i])],
                          Nil)
    /\ UNCHANGED <<tpM, tpScoreFunc, tpMetric, tpCtx, tpReferences,
                   tpPredictions, tpReferenceScores>>
    /\ UNCHANGED <<runVars, extVars>>

\* the context is cancelled, or its deadline passes, during Compute
TpCancel ==
    /\ tpPc \in {"closure", "refsDone"} /\ tpCtx = Nil
    /\ tpCtx' \in {Canceled, DeadlineExceeded}
    /\ UNCHANGED <<tpM, tpScoreFunc, tpMetric, tpReferences, tpPredictions,
                   tpPc, tpReferenceScores, tpRet, tpCalls>>
    /\ UNCHANGED <<runVars, extVars>>

AdapterInit ==
    /\ tpM \in PointwiseMetrics
    /\ tpScoreFunc \in ScoreFuncs
    /\ tpMetric = NoMetric
    /\ tpCtx \in {Nil, Canceled, DeadlineExceeded}
    /\ tpReferences \in SeqUpTo(Texts, MaxBatch)
    /\ tpPredictions \in SeqUpTo(Texts, MaxBatch)
    /\ tpPc = "new"
    /\ tpReferenceScores = <<>>
    /\ tpRet = NoOutcome
    /\ tpCalls = <<>>
    /\ e = NewPairwiseEvaluation(<<>>)
    /\ ctx = Nil
    /\ instances = <<>>
    /\ predictions = <<>>
    /\ pc = "unused"
    /\ references = <<>>
    /\ results = <<>>
    /\ mi = 1
    /\ ret = NoReturn
    /\ invoked = <<>>
    /\ ExtIdle

AdapterNext ==
    \/ ToPairwise
    \/ ToPairwiseCompute
    \/ ClosureReferenceScores
    \/ ClosurePredictionScores
    \/ TpCancel

AdapterSpec == AdapterInit /\ [][AdapterNext]_vars

\* ------------------------------------------------- a direct call of Compute
\* m.Compute(ctx, references, predictions) on a PairwiseMetric of part_001
PairwiseCompute ==
    /\ cPc = "ready" /\ cKind = "PairwiseMetric"
    /\ cRet' = PairwiseMetricCompute(cM, cCtx, cReferences, cPredictions)
    /\ cPc' = IF cRet'.panic THEN "panicked" ELSE "returned"
    /\ UNCHANGED <<cKind, cM, cCtx, cReferences, cPredictions>>
    /\ UNCHANGED <<runVars, tpVars, sliceVars, concVars, scoreVars, histVars>>

\* m.Compute(ctx, predictions) on a PointwiseMetric of part_001
PointwiseCompute ==
    /\ cPc = "ready" /\ cKind = "PointwiseMetric"
    /\ cRet' = PointwiseMetricCompute(cM, cCtx, cPredictions)
    /\ cPc' = IF cRet'.panic THEN "panicked" ELSE "returned"
    /\ UNCHANGED <<cKind, cM, cCtx, cReferences, cPredictions>>
    /\ UNCHANGED <<runVars, tpVars, sliceVars, concVars, scoreVars, histVars>>

\* m.Compute(ctx, references, predictions) on a PairwiseMetric of eval.go
PairwiseFieldCompute ==
    /\ cPc = "ready" /\ cKind = "PairwiseField"
    /\ cRet' = FieldPairwiseCompute(cM, cCtx, cReferences, cPredictions)
    /\ cPc' = IF cRet'.panic THEN "panicked" ELSE "returned"
    /\ UNCHANGED <<cKind, cM, cCtx, cReferences, cPredictions>>
    /\ UNCHANGED <<runVars, tpVars, sliceVars, concVars, scoreVars, histVars>>

\* m.Compute(ctx, predictions) on a PointwiseMetric of eval.go
PointwiseFieldCompute ==
    /\ cPc = "ready" /\ cKind = "PointwiseField"
    /\ cRet' = FieldPointwiseCompute(cM, cCtx, cPredictions)
    /\ cPc' = IF cRet'.panic THEN "panicked" ELSE "returned"
    /\ UNCHANGED <<cKind, cM, cCtx, cReferences, cPredictions>>
    /\ UNCHANGED <<runVars, tpVars, sliceVars, concVars, scoreVars, histVars>>

IsPairwiseKind(k) == k \in {"PairwiseMetric", "PairwiseField"}

ComputeInit ==
    /\ cKind \in {"PairwiseMetric", "PointwiseMetric",
                  "PairwiseField", "PointwiseField"}
    /\ cM \in IF IsPairwiseKind(cKind)
              THEN {NewPairwiseMetric(n, "d", f) :
                        n \in {"m1"}, f \in PairwiseFuncs}
              ELSE {NewPointwiseMetric(n, "d", f) :
                        n \in {"m1"}, f \in PointwiseFuncs}
    /\ cCtx \in {Nil, Canceled, DeadlineExceeded}
    /\ cReferences \in IF IsPairwiseKind(cKind)
                       THEN SeqUpTo(Texts, MaxBatch) ELSE {<<>>}
    /\ cPredictions \in SeqUpTo(Texts, MaxBatch)
    /\ cPc = "ready"
    /\ cRet = WithCalls(NoOutcome, <<>>)
    /\ RunIdle
    /\ TpIdle
    /\ SliceIdle
    /\ ConcIdle
    /\ ScoreIdle
    /\ HistIdle

ComputeNext ==
    \/ PairwiseCompute
    \/ PointwiseCompute
    \/ PairwiseFieldCompute
    \/ PointwiseFieldCompute

ComputeSpec == ComputeInit /\ [][ComputeNext]_vars

\* ----------------------------------- construction from the caller's slices
\* A Go slice is a header (array, len) over a backing array.  The
\* constructors store the header they are given: metrics: metrics.
SliceElems(heap, slice) == SubSeq(heap[slice.array], 1, slice.len)

SlicePairwisePool ==
    {NewPairwiseMetric("m1", "d", "exact"), NewPairwiseMetric("m2", "d", "lendiff")}

SlicePointwisePool ==
    {NewPointwiseMetric("m1", "d", "len"), NewPointwiseMetric("m2", "d", "isa")}

\* the metrics a runner's Run ranges over, read from the backing arrays
RunnerMetrics(heap, runner) ==
    SliceElems(heap, runner.pairwiseMetrics)
        \o SliceElems(heap, runner.pointwiseMetrics)

\* NewPairwiseEvaluation, NewPointwiseEvaluation, NewEvaluation (evaluation.go
\* and eval.go) called with the caller's slices
Construct ==
    /\ sPc = "new"
    /\ sRunner' =
          CASE sKind = "PairwiseEvaluation" ->
                  [NewPairwiseEvaluation(sPairwise)
                      EXCEPT !.pointwiseMetrics = [array |-> "pointwise", len |-> 0]]
            [] sKind = "PointwiseEvaluation" ->
                  [NewPointwiseEvaluation(sPointwise)
                      EXCEPT !.pairwiseMetrics = [array |-> "pairwise", len |-> 0]]
            [] sKind = "Evaluation" -> NewEvaluation(sPairwise, sPointwise)
            [] OTHER -> NewEvaluationEvalGo(sPairwise, sPointwise)
    /\ sBuilt' = RunnerMetrics(sHeap, sRunner')
    /\ sPc' = "built"
    /\ UNCHANGED <<sKind, sHeap, sPairwise, sPointwise, sExecuted>>
    /\ UNCHANGED <<runVars, tpVars, callVars, concVars, scoreVars, histVars>>

\* the caller: metrics[i] = m
CallerOverwrite ==
    /\ sPc \in {"built", "ran"}
    /\ \/ \E i \in 1..sPairwise.len, m \in SlicePairwisePool :
             sHeap' = [sHeap EXCEPT !.pairwise[i] = m]
       \/ \E i \in 1..sPointwise.len, m \in SlicePointwisePool :
             sHeap' = [sHeap EXCEPT !.pointwise[i] = m]
    /\ UNCHANGED <<sKind, sPairwise, sPointwise, sRunner, sBuilt, sPc, sExecuted>>
    /\ UNCHANGED <<runVars, tpVars, callVars, concVars, scoreVars, histVars>>

\* the caller: metrics[i], metrics[j] = metrics[j], metrics[i]
CallerSwap ==
    /\ sPc \in {"built", "ran"}
    /\ \/ \E i, j \in 1..sPairwise.len :
             /\ i < j
             /\ sHeap' = [sHeap EXCEPT !.pairwise[i] = sHeap.pairwise[j],
                                       !.pairwise[j] = sHeap.pairwise[i]]
       \/ \E i, j \in 1..sPointwise.len :
             /\ i < j
             /\ sHeap' = [sHeap EXCEPT !.pointwise[i] = sHeap.pointwise[j],
                                       !.pointwise[j] = sHeap.pointwise[i]]
    /\ UNCHANGED <<sKind, sPairwise, sPointwise, sRunner, sBuilt, sPc, sExecuted>>
    /\ UNCHANGED <<runVars, tpVars, callVars, concVars, scoreVars, histVars>>

\* a Run of the runner on a valid batch with a live context: the range loops
\* read each metric from the backing array and call it (the functions of the
\* pools return one score per item and no error)
SliceRun ==
    /\ sPc \in {"built", "ran"}
    /\ sExecuted' = RunnerMetrics(sHeap, sRunner)
    /\ sPc' = "ran"
    /\ UNCHANGED <<sKind, sHeap, sPairwise, sPointwise, sRunner, sBuilt>>
    /\ UNCHANGED <<runVars, tpVars, callVars, concVars, scoreVars, histVars>>

SliceInit ==
    /\ sKind \in {"PairwiseEvaluation", "PointwiseEvaluation",
                  "Evaluation", "EvaluationEvalGo"}
    /\ sHeap \in [pairwise : IF sKind = "PointwiseEvaluation" THEN {<<>>}
                             ELSE SeqUpTo(SlicePairwisePool, MaxMetrics),
                  pointwise : IF sKind = "PairwiseEvaluation" THEN {<<>>}
                              ELSE SeqUpTo(SlicePointwisePool, MaxMetrics)]
    /\ Len(sHeap.pairwise) + Len(sHeap.pointwise) <= MaxMetrics
    /\ sPairwise = [array |-> "pairwise", len |-> Len(sHeap.pairwise)]
    /\ sPointwise = [array |-> "pointwise", len |-> Len(sHeap.pointwise)]
    /\ sRunner = NewPairwiseEvaluation(<<>>)
    /\ sBuilt = <<>>
    /\ sPc = "new"
    /\ sExecuted = <<>>
    /\ RunIdle
    /\ TpIdle
    /\ CallIdle
    /\ ConcIdle
    /\ ScoreIdle
    /\ HistIdle

SliceNext ==
    \/ Construct
    \/ CallerOverwrite
    \/ CallerSwap
    \/ SliceRun

SliceSpec == SliceInit /\ [][SliceNext]_vars

\* ------------------------------------------ two concurrent calls of Run
\* PairwiseEvaluation.Run and PointwiseEvaluation.Run as steps of one
\* goroutine: st holds the call's arguments and locals, heap the maps.  A
\* result holds the address of its MetricResults map.
Goroutines == {1, 2}

NewCall(c, is, ps) ==
    [ctx |-> c, instances |-> is, predictions |-> ps, pc |-> "idle",
     references |-> <<>>, results |-> <<>>, mi |-> 1, ret |-> NoReturn]

\* faulty variant of MapAddr: the i-th map of every call is the same object
MapAddrShared(heap, i) == i

\* the address of the i-th map a call allocates on heap
MapAddr(heap, i) == Len(heap) + i

\* the heap after n calls of make(map[string]float64) by goroutine id
MakeMaps(heap, id, n) ==
    heap \o [i \in 1..n |-> [owner |-> id, writers |-> {}, map |-> EmptyMap]]

\* for i, score := range scores { results[i].MetricResults[name] = score }
GoStoreScores(heap, id, rs, name, scores) ==
    [a \in DOMAIN heap |->
        LET is == {i \in 1..Len(rs) : i <= Len(scores) /\ rs[i].MetricResults = a}
        IN  IF is = {} THEN heap[a]
            ELSE [heap[a] EXCEPT
                    !.map = MapPut(@, name, scores[CHOOSE i \in is : TRUE]),
                    !.writers = @ \cup {id}]]

GoReturnError(st, err) ==
    [st EXCEPT !.pc = "returned",
               !.ret = [nil |-> TRUE, results |-> <<>>, err |-> err]]

\* Run up to the metric loop
GoStart(runner, st, heap, id) ==
    IF st.ctx # Nil THEN [call |-> GoReturnError(st, st.ctx), heap |-> heap]
    ELSE IF runner.kind = "PairwiseEvaluation"
    THEN IF Len(st.instances) = 0
         THEN [call |-> GoReturnError(st, Errorf("no instances provided")),
               heap |-> heap]
         ELSE LET n == Len(st.instances)
              IN  [call |-> [st EXCEPT
                      !.references = [i \in 1..n |-> st.instances[i].Reference],
                      !.predictions = [i \in 1..n |-> st.instances[i].Prediction],
                      !.results = [i \in 1..n |->
                          [Instance |-> st.instances[i],
                           MetricResults |-> MapAddr(heap, i)]],
                      !.pc = "loop"],
                   heap |-> MakeMaps(heap, id, n)]
    ELSE IF Len(st.predictions) = 0
         THEN [call |-> GoReturnError(st, Errorf("no predictions provided")),
               heap |-> heap]
         ELSE LET n == Len(st.predictions)
              IN  [call |-> [st EXCEPT
                      !.results = [i \in 1..n |->
                          [Prediction |-> st.predictions[i],
                           MetricResults |-> MapAddr(heap, i)]],
                      !.pc = "loop"],
                   heap |-> MakeMaps(heap, id, n)]

GoMetrics(runner) ==
    IF runner.kind = "PairwiseEvaluation" THEN runner.pairwiseMetrics
    ELSE runner.pointwiseMetrics

\* one iteration of the metric loop
GoMetric(runner, st, heap, id) ==
    LET metric == GoMetrics(runner)[st.mi]
        o == IF runner.kind = "PairwiseEvaluation"
             THEN PairwiseMetricCompute(metric, st.ctx, st.references, st.predictions)
             ELSE PointwiseMetricCompute(metric, st.ctx, st.predictions)
    IN  IF o.panic THEN [call |-> [st EXCEPT !.pc = "panicked"], heap |-> heap]
        ELSE IF o.err # Nil
        THEN [call |-> GoReturnError(st, ErrorfWrap("metric", metric.Name, o.err)),
              heap |-> heap]
        ELSE [call |-> IF Len(o.scores) > Len(st.results)
                       THEN [st EXCEPT !.pc = "panicked"]
                       ELSE [st EXCEPT !.mi = @ + 1],
              heap |-> GoStoreScores(heap, id, st.results, metric.Name, o.scores)]

\* return results, nil
GoReturn(st, heap) ==
    [call |-> [st EXCEPT !.pc = "returned",
                         !.ret = [nil |-> FALSE, results |-> st.results, err |-> Nil]],
     heap |-> heap]

GoStep(runner, st, heap, id) ==
    IF st.pc = "idle" THEN GoStart(runner, st, heap, id)
    ELSE IF st.mi <= Len(GoMetrics(runner)) THEN GoMetric(runner, st, heap, id)
    ELSE GoReturn(st, heap)

\* a panic in one goroutine ends the program
NoPanic == \A id \in Goroutines : gCalls[id].pc # "panicked"

GoRunStart(id) ==
    /\ NoPanic /\ gCalls[id].pc = "idle"
    /\ LET n == GoStep(gE, gCalls[id], gHeap, id)
       IN  gCalls' = [gCalls EXCEPT ![id] = n.call] /\ gHeap' = n.heap
    /\ UNCHANGED gE
    /\ UNCHANGED <<runVars, tpVars, callVars, sliceVars, scoreVars, histVars>>

GoRunMetric(id) ==
    /\ NoPanic /\ gCalls[id].pc = "loop"
    /\ gCalls[id].mi <= Len(GoMetrics(gE))
    /\ LET n == GoStep(gE, gCalls[id], gHeap, id)
       IN  gCalls' = [gCalls EXCEPT ![id] = n.call] /\ gHeap' = n.heap
    /\ UNCHANGED gE
    /\ UNCHANGED <<runVars, tpVars, callVars, sliceVars, scoreVars, histVars>>

GoRunReturn(id) ==
    /\ NoPanic /\ gCalls[id].pc = "loop"
    /\ gCalls[id].mi > Len(GoMetrics(gE))
    /\ LET n == GoStep(gE, gCalls[id], gHeap, id)
       IN  gCalls' = [gCalls EXCEPT ![id] = n.call] /\ gHeap' = n.heap
    /\ UNCHANGED gE
    /\ UNCHANGED <<runVars, tpVars, callVars, sliceVars, scoreVars, histVars>>

ConcPairwisePool ==
    {NewPairwiseMetric("m1", "d", "exact"), NewPairwiseMetric("m2", "d", "short"),
     NewPairwiseMetric("m2", "d", "fail"), NewPairwiseMetric("m1", "d", "long")}

ConcPointwisePool ==
    {NewPointwiseMetric("m1", "d", "len"), NewPointwiseMetric("m2", "d", "short"),
     NewPointwiseMetric("m2", "d", "fail"), NewPointwiseMetric("m1", "d", "long")}

ConcInit ==
    /\ gE \in {NewPairwiseEvaluation(ms) : ms \in SeqUpTo(ConcPairwisePool, MaxMetrics)}
          \cup {NewPointwiseEvaluation(ms) :
                    ms \in SeqUpTo(ConcPointwisePool, MaxMetrics)}
    /\ gCalls \in [Goroutines ->
          {NewCall(c, is, ps) :
              c \in {Nil, Canceled},
              is \in IF gE.kind = "PairwiseEvaluation" THEN InstanceBatches ELSE {<<>>},
              ps \in IF gE.kind = "PointwiseEvaluation" THEN PredictionBatches
                     ELSE {<<>>}}]
    /\ gHeap = <<>>
    /\ RunIdle
    /\ TpIdle
    /\ CallIdle
    /\ SliceIdle
    /\ ScoreIdle
    /\ HistIdle

ConcNext ==
    \/ \E id \in Goroutines : GoRunStart(id)
    \/ \E id \in Goroutines : GoRunMetric(id)
    \/ \E id \in Goroutines : GoRunReturn(id)

ConcSpec == ConcInit /\ [][ConcNext]_vars

\* ------------------------------------- a call of a built-in score function
CallDifferenceScore ==
    /\ fPc = "ready"
    /\ fFunc' = "DifferenceScore"
    /\ fOut' = DifferenceScore(fR, fP)
    /\ fPc' = "returned"
    /\ UNCHANGED <<fR, fP>>
    /\ UNCHANGED <<runVars, tpVars, callVars, sliceVars, concVars, histVars>>

CallRatioScore ==
    /\ fPc = "ready"
    /\ fFunc' = "RatioScore"
    /\ fOut' = RatioScore(fR, fP)
    /\ fPc' = "returned"
    /\ UNCHANGED <<fR, fP>>
    /\ UNCHANGED <<runVars, tpVars, callVars, sliceVars, concVars, histVars>>

CallAverageScore ==
    /\ fPc = "ready"
    /\ fFunc' = "AverageScore"
    /\ fOut' = AverageScore(fR, fP)
    /\ fPc' = "returned"
    /\ UNCHANGED <<fR, fP>>
    /\ UNCHANGED <<runVars, tpVars, callVars, sliceVars, concVars, histVars>>

CallAbsoluteDifferenceScore ==
    /\ fPc = "ready"
    /\ fFunc' = "AbsoluteDifferenceScore"
    /\ fOut' = AbsoluteDifferenceScore(fR, fP)
    /\ fPc' = "returned"
    /\ UNCHANGED <<fR, fP>>
    /\ UNCHANGED <<runVars, tpVars, callVars, sliceVars, concVars, histVars>>

CallMaxScore ==
    /\ fPc = "ready"
    /\ fFunc' = "MaxScore"
    /\ fOut' = MaxScore(fR, fP)
    /\ fPc' = "returned"
    /\ UNCHANGED <<fR, fP>>
    /\ UNCHANGED <<runVars, tpVars, callVars, sliceVars, concVars, histVars>>

CallMinScore ==
    /\ fPc = "ready"
    /\ fFunc' = "MinScore"
    /\ fOut' = MinScore(fR, fP)
    /\ fPc' = "returned"
    /\ UNCHANGED <<fR, fP>>
    /\ UNCHANGED <<runVars, tpVars, callVars, sliceVars, concVars, histVars>>

ScoreInit ==
    /\ fFunc = "none"
    /\ fR \in Floats
    /\ fP \in Floats
    /\ fPc = "ready"
    /\ fOut = 0
    /\ RunIdle
    /\ TpIdle
    /\ CallIdle
    /\ SliceIdle
    /\ ConcIdle
    /\ HistIdle

ScoreNext ==
    \/ CallDifferenceScore
    \/ CallRatioScore
    \/ CallAverageScore
    \/ CallAbsoluteDifferenceScore
    \/ CallMaxScore
    \/ CallMinScore

ScoreSpec == ScoreInit /\ [][ScoreNext]_vars

\* =================================================================== claims
\* ---- the position of a Run in its metric loops
MetricCount == Len(e.pairwiseMetrics) + Len(e.pointwiseMetrics)

\* the k-th registered metric: the pairwise ones come first
MetricAt(k) ==
    IF k <= Len(e.pairwiseMetrics) THEN e.pairwiseMetrics[k]
    ELSE e.pointwiseMetrics[k - Len(e.pairwiseMetrics)]

\* the outcome of the Compute call the loop makes for the k-th metric
ComputeAt(k) ==
    IF k <= Len(e.pairwiseMetrics)
    THEN IF e.kind = "EvaluationEvalGo"
         THEN FieldPairwiseCompute(MetricAt(k), ctx, references, predictions)
         ELSE PairwiseMetricCompute(MetricAt(k), ctx, references, predictions)
    ELSE IF e.kind = "EvaluationEvalGo"
         THEN FieldPointwiseCompute(MetricAt(k), ctx, predictions)
         ELSE PointwiseMetricCompute(MetricAt(k), ctx, predictions)

\* the number of items of the batch Run was given
BatchSize ==
    IF e.kind = "PointwiseEvaluation" THEN Len(predictions) ELSE Len(instances)

\* a step that runs one iteration of a metric loop
MetricStep ==
    /\ pc = "loop" /\ mi <= MetricCount
    /\ ctx' = ctx
    /\ pc' # pc \/ mi' # mi

RegisteredNames == {MetricAt(k).Name : k \in 1..MetricCount}

DistinctNames == Cardinality(RegisteredNames) = MetricCount

\* Run has ended: it returned or it panicked
Ended == pc \in {"returned", "panicked"}

\* C1: when every metric of a PairwiseEvaluation returns a nil error (the
\* metrics have distinct names, the batch is not empty and the context stays
\* live), Run returns one result per instance, in input order, and every
\* result's MetricResults has exactly |M| entries, one under each metric's name.
C1_OneResultPerInstanceAllMetrics ==
    ( /\ Ended /\ e.kind = "PairwiseEvaluation"
      /\ Len(instances) > 0 /\ ctx = Nil /\ DistinctNames
      /\ \A k \in 1..MetricCount : MetricAt(k).compute # "fail" )
    => /\ pc = "returned" /\ ~ret.nil /\ ret.err = Nil
       /\ Len(ret.results) = Len(instances)
       /\ \A i \in 1..Len(instances) :
            /\ ret.results[i].Instance = instances[i]
            /\ DOMAIN ret.results[i].MetricResults = RegisteredNames
            /\ Cardinality(DOMAIN ret.results[i].MetricResults) = MetricCount

\* C2: when a metric's Compute returns an error during Run, Run returns that
\* failure with a nil result slice: nothing of the scores stored for earlier
\* metrics is returned.
C2_FailureReturnsNoResults ==
    /\ [](pc = "returned" /\ ret.err # Nil => ret.nil /\ ret.results = <<>>)
    /\ [][ MetricStep /\ ~ComputeAt(mi).panic /\ ComputeAt(mi).err # Nil
           => /\ pc' = "returned"
              /\ ret'.err # Nil /\ ret'.nil /\ ret'.results = <<>> ]_vars

\* a second metric failed after the first one's scores had been stored
C2_Witness ==
    /\ pc = "returned" /\ ret.err # Nil /\ ret.nil
    /\ mi = 2
    /\ Len(results) > 0
    /\ \A i \in 1..Len(results) : DOMAIN results[i].MetricResults # {}

\* C3: when a metric's Compute returns a nil error and a number of scores
\* other than the batch size, Run returns a failure that reports the count
\* mismatch, with a nil result slice; it does not panic.
IsContractViolation(err) ==
    err.type = "errorf" /\ err.msg = "returned %d scores, expected %d"

C3_ScoreCountMismatchFails ==
    [][ ( /\ MetricStep /\ ~ComputeAt(mi).panic /\ ComputeAt(mi).err = Nil
          /\ Len(ComputeAt(mi).scores) # BatchSize )
        => /\ pc' = "returned"
           /\ ret'.nil /\ ret'.results = <<>>
           /\ IsContractViolation(ret'.err) ]_vars

\* C4: Run called with a context that is already done returns the context's
\* error and a nil result slice, and no metric function is ever called.
C4_DoneContextFailsAtEntry ==
    /\ [][ pc = "idle" /\ ctx # Nil /\ pc' # pc
           => /\ pc' = "returned"
              /\ ret' = [nil |-> TRUE, results |-> <<>>, err |-> ctx]
              /\ invoked' = <<>> ]_vars
    /\ [](pc = "returned" /\ ret.err.type = "ctx" => invoked = <<>>)

\* a runner with metrics and a non-empty batch returned the deadline error
C4_Witness ==
    /\ pc = "returned" /\ ret.err = DeadlineExceeded /\ ret.nil
    /\ MetricCount > 0 /\ BatchSize > 0
    /\ invoked = <<>>

\* the failures Run reports for a batch it rejects
IsInvalidInput(err) ==
    /\ err.type = "errorf"
    /\ err.msg \in {"no instances provided", "no predictions provided",
                    "number of instances does not match number of predictions"}

\* C5: the combined runner's Run, called with a live context and a number
\* of instances other than the number of predictions, returns an invalid-input
\* failure with a nil result slice, calls no metric function and does not
\* panic.
C5_CountMismatchRejected ==
    /\ [][ ( /\ pc = "idle" /\ pc' # pc /\ ctx = Nil
             /\ e.kind \in {"Evaluation", "EvaluationEvalGo"}
             /\ Len(instances) # Len(predictions) )
           => /\ pc' = "returned"
              /\ ret'.nil /\ ret'.results = <<>>
              /\ IsInvalidInput(ret'.err)
              /\ invoked' = <<>> ]_vars
    /\ []( e.kind \in {"Evaluation", "EvaluationEvalGo"}
           /\ Len(instances) # Len(predictions) => pc # "panicked" )

\* C6: Run called with a live context and an empty batch returns an
\* invalid-input failure with a nil result slice and calls no metric function.
C6_EmptyBatchRejected ==
    [][ (pc = "idle" /\ pc' # pc /\ ctx = Nil /\ BatchSize = 0)
        => /\ pc' = "returned"
           /\ ret'.nil /\ ret'.results = <<>>
           /\ IsInvalidInput(ret'.err)
           /\ invoked' = <<>> ]_vars

\* C7: the metrics are called one after another in registration order (the
\* pairwise ones first), and a failure Run returns names the first metric, in
\* that order, whose Compute failed; no later metric has been called.
C7_OrderAndFirstFailure ==
    /\ Len(invoked) <= MetricCount
    /\ \A k \in 1..Len(invoked) :
          /\ invoked[k].name = MetricAt(k).Name
          /\ invoked[k].compute = MetricAt(k).compute
    /\ pc = "loop" => Len(invoked) = mi - 1
    /\ (pc = "returned" /\ ret.err.type = "wrap")
       => /\ mi <= MetricCount
          /\ ret.err.name = MetricAt(mi).Name
          /\ Len(invoked) \in {mi - 1, mi}
          /\ \A k \in 1..(mi - 1) : MetricAt(k).compute # "fail"

\* two metrics with different names both fail: the first is reported and the
\* second was never called
C7_Witness ==
    /\ pc = "returned" /\ ret.err.type = "wrap"
    /\ MetricCount = 2
    /\ MetricAt(1).compute = "fail" /\ MetricAt(2).compute = "fail"
    /\ MetricAt(1).Name # MetricAt(2).Name
    /\ ret.err.name = MetricAt(1).Name
    /\ Len(invoked) = 1

\* ---- the adapter's Compute call
\* the scores the source pointwise metric's function gives for a slice
PointwiseScoresOf(texts) == PointwiseMetricFunc(tpM.compute, texts).scores

TpSucceeded == tpPc = "returned" /\ tpRet.err = Nil

\* C8: for non-empty references and predictions of equal length, the pairwise
\* metric made by ToPairwise(DifferenceScore) returns one score per pair, the
\* pointwise metric's score of predictions[i] minus its score of references[i];
\* with a well-behaved pointwise function and a live context it does return.
C8_DifferenceOfPointwiseScores ==
    /\ (TpSucceeded /\ tpScoreFunc = "DifferenceScore")
       => /\ Len(tpReferences) > 0 /\ Len(tpReferences) = Len(tpPredictions)
          /\ Len(tpRet.scores) = Len(tpReferences)
          /\ \A i \in 1..Len(tpReferences) :
                tpRet.scores[i] = PointwiseScoresOf(tpPredictions)[i]
                                  - PointwiseScoresOf(tpReferences)[i]
    /\ ( /\ tpPc \in {"returned", "panicked"} /\ tpCtx = Nil
         /\ tpM.compute \in {"len", "isa"}
         /\ Len(tpReferences) > 0 /\ Len(tpReferences) = Len(tpPredictions) )
       => TpSucceeded

\* a difference of each sign in one returned slice
C8_Witness ==
    /\ TpSucceeded /\ tpScoreFunc = "DifferenceScore"
    /\ tpM.compute = "len"
    /\ Len(tpRet.scores) = 2
    /\ tpRet.scores[1] < 0 /\ tpRet.scores[2] > 0

\* C9: the metric ToPairwise returns has the source metric's Name and
\* Description, and when its Compute succeeds it returns one score per pair,
\* scoreFunc(score of references[i], score of predictions[i]), whatever the
\* scoreFunc.
C9_AdapterKeepsNameAndApplies ==
    /\ tpPc # "new"
       => /\ tpMetric.Name = tpM.Name
          /\ tpMetric.Description = tpM.Description
    /\ TpSucceeded
       => /\ Len(tpRet.scores) = Len(tpReferences)
          /\ Len(tpRet.scores) = Len(tpPredictions)
          /\ \A i \in 1..Len(tpReferences) :
                tpRet.scores[i] =
                    ApplyScoreFunc(tpScoreFunc,
                                   PointwiseScoresOf(tpReferences)[i],
                                   PointwiseScoresOf(tpPredictions)[i])

\* a caller's own score function applied to two pairs with unequal scores
C9_Witness ==
    /\ TpSucceeded /\ tpScoreFunc = "WeightedScore"
    /\ tpMetric.Name = "m2" /\ tpMetric.Description = "d2"
    /\ Len(tpRet.scores) = 2
    /\ tpReferences[1] # tpPredictions[1] /\ tpReferences[2] # tpPredictions[2]
    /\ tpRet.scores[1] # tpRet.scores[2]

\* C10: when the pointwise call on references fails, the adapted Compute
\* returns that very error and no scores without calling the metric on
\* predictions; when the call on predictions fails, it returns that very error
\* and no scores.
C10_SubCallFailurePropagates ==
    /\ [][ ( /\ tpPc = "closure" /\ tpPc' # tpPc
             /\ PointwiseMetricCompute(tpM, tpCtx, tpReferences).err # Nil )
           => /\ tpPc' = "returned"
              /\ tpRet' = Return(<<>>,
                     PointwiseMetricCompute(tpM, tpCtx, tpReferences).err)
              /\ \A k \in 1..Len(tpCalls') :
                    tpCalls'[k].predictions = tpReferences
              /\ Len(tpCalls') <= 1 ]_vars
    /\ [][ ( /\ tpPc = "refsDone" /\ tpPc' # tpPc
             /\ PointwiseMetricCompute(tpM, tpCtx, tpPredictions).err # Nil )
           => /\ tpPc' = "returned"
              /\ tpRet' = Return(<<>>,
                     PointwiseMetricCompute(tpM, tpCtx, tpPredictions).err) ]_vars
    /\ [](tpPc = "returned" /\ tpRet.err # Nil => tpRet.scores = <<>>)

\* the call on references succeeded and the one on predictions reported the
\* function's own error
C10_Witness ==
    /\ tpPc = "returned" /\ tpRet.err = ComputeFailed
    /\ tpReferenceScores # <<>>
    /\ Len(tpCalls) = 2
    /\ tpRet.scores = <<>>

\* ---- a direct call of a metric's Compute
ComputeEnded == cPc \in {"returned", "panicked"}

\* the failures a metric's Compute reports for inputs it rejects
IsMetricInvalidInput(err) ==
    /\ err.type = "errorf"
    /\ err.msg \in {"no references provided", "no predictions provided",
                    "number of references does not match number of predictions"}

\* the cardinality a metric's Compute asks of its inputs
ValidCardinality ==
    IF IsPairwiseKind(cKind)
    THEN Len(cReferences) > 0 /\ Len(cReferences) = Len(cPredictions)
    ELSE Len(cPredictions) > 0

\* C11: a metric's Compute called with a context that is already cancelled or
\* past its deadline returns that context's error and no scores, and the
\* metric's function is not called, whatever the inputs.
C11_DoneContextSkipsFunction ==
    (ComputeEnded /\ cCtx # Nil)
    => /\ cPc = "returned"
       /\ cRet.err = cCtx
       /\ cRet.scores = <<>>
       /\ cRet.calls = <<>>

\* C12: with a live context a metric's Compute calls its function only for
\* inputs of valid cardinality (pairwise: non-empty references and as many
\* predictions; pointwise: non-empty predictions); for every other input it
\* returns an invalid-input failure and no scores without calling it.
C12_FunctionCalledOnlyOnValidInputs ==
    (ComputeEnded /\ cCtx = Nil)
    => /\ cRet.calls # <<>> => ValidCardinality
       /\ ~ValidCardinality
          => /\ cPc = "returned"
             /\ IsMetricInvalidInput(cRet.err)
             /\ cRet.scores = <<>>
             /\ cRet.calls = <<>>

\* C13: every invalid-input failure of a metric's Compute carries the two
\* counts, the observed one and the expected one.
C13_InvalidInputCarriesCounts ==
    (cPc = "returned" /\ IsMetricInvalidInput(cRet.err))
    => /\ {"a", "b"} \subseteq DOMAIN cRet.err
       /\ cRet.err.a = Len(cReferences)
       /\ cRet.err.b = Len(cPredictions)

\* ---- the combined runner
IsCombined == e.kind \in {"Evaluation", "EvaluationEvalGo"}

\* the pointwise metric registered last under a name
LastPointwise(name) ==
    LET ks == {k \in 1..Len(e.pointwiseMetrics) : e.pointwiseMetrics[k].Name = name}
    IN  e.pointwiseMetrics[CHOOSE k \in ks : \A j \in ks : j <= k]

SharedNames ==
    {e.pairwiseMetrics[k].Name : k \in 1..Len(e.pairwiseMetrics)}
        \cap {e.pointwiseMetrics[k].Name : k \in 1..Len(e.pointwiseMetrics)}

\* C14: the combined runner calls every pairwise metric before any pointwise
\* metric; with metrics that return one score per item on a valid batch under
\* a live context Run succeeds whether or not names collide; and after a
\* successful Run the entry under a name shared by a pairwise and a pointwise
\* metric is the pointwise metric's score for that item.
C14_PairwiseFirstPointwiseWins ==
    IsCombined
    => /\ \A k \in 1..Len(invoked) :
            invoked[k] =
                IF k <= Len(e.pairwiseMetrics)
                THEN Call(e.pairwiseMetrics[k], references, predictions)
                ELSE Call(e.pointwiseMetrics[k - Len(e.pairwiseMetrics)],
                          <<>>, predictions)
       /\ ( /\ Ended /\ ctx = Nil
            /\ Len(instances) > 0 /\ Len(instances) = Len(predictions)
            /\ \A k \in 1..MetricCount :
                  MetricAt(k).compute \in {"exact", "lendiff", "len", "isa"} )
          => pc = "returned" /\ ret.err = Nil
       /\ (pc = "returned" /\ ret.err = Nil)
          => \A name \in SharedNames :
                LET scores == PointwiseMetricFunc(LastPointwise(name).compute,
                                                  predictions).scores
                IN  \A i \in 1..Len(ret.results) :
                       i <= Len(scores)
                       => ret.results[i].MetricResults[name] = scores[i]

\* a pairwise and a pointwise metric under one name whose scores differ
C14_Witness ==
    /\ e.kind = "Evaluation"
    /\ pc = "returned" /\ ret.err = Nil
    /\ Len(e.pairwiseMetrics) = 1 /\ Len(e.pointwiseMetrics) = 1
    /\ e.pairwiseMetrics[1].Name = e.pointwiseMetrics[1].Name
    /\ e.pairwiseMetrics[1].compute = "lendiff"
    /\ e.pointwiseMetrics[1].compute = "len"
    /\ Len(invoked) = 2
    /\ Len(ret.results) = 2
    /\ \A i \in 1..2 :
          /\ ret.results[i].MetricResults[e.pointwiseMetrics[1].Name]
                = PointwiseMetricFunc(e.pointwiseMetrics[1].compute,
                                      predictions).scores[i]
          /\ ret.results[i].MetricResults[e.pointwiseMetrics[1].Name]
                # PairwiseMetricFunc(e.pairwiseMetrics[1].compute,
                                     references, predictions).scores[i]

\* ---- the runner's metric list
\* C16: once a constructor has returned, the metrics a Run of the runner
\* calls are the ones the caller's slices held at construction, in that
\* order, whatever the caller has since written through its own slices.
C16_MetricListFixedAtConstruction ==
    sPc = "ran" => sExecuted = sBuilt

\* ---- concurrent calls of Run
\* what a call has produced: where it stands, what it returned, and the
\* contents of the maps its results point to
GoOutcome(st, heap) ==
    [pc |-> st.pc, nil |-> st.ret.nil, err |-> st.ret.err,
     results |-> [i \in 1..Len(st.ret.results) |->
                     heap[st.ret.results[i].MetricResults].map]]

RECURSIVE SoloRun(_, _, _)
\* the outcome of the call when it is the only one running
SoloRun(runner, st, heap) ==
    IF st.pc \in {"returned", "panicked"} THEN GoOutcome(st, heap)
    ELSE LET n == GoStep(runner, st, heap, 1)
         IN  SoloRun(runner, n.call, n.heap)

\* the addresses of the maps a call's results point to
GoMaps(id) ==
    {gCalls[id].results[i].MetricResults : i \in 1..Len(gCalls[id].results)}

\* C15: two Run calls on one runner, interleaved in any way, share no mutable
\* state: a call that has ended has the outcome it would have alone, every
\* map a call's results point to was allocated by that call, no map is
\* pointed to by both calls, and a map is written by its own call only.
C15_ConcurrentRunsIndependent ==
    /\ \A id \in Goroutines :
          /\ gCalls[id].pc \in {"returned", "panicked"}
             => GoOutcome(gCalls[id], gHeap)
                  = SoloRun(gE, NewCall(gCalls[id].ctx, gCalls[id].instances,
                                        IF gE.kind = "PairwiseEvaluation"
                                        THEN <<>> ELSE gCalls[id].predictions),
                            <<>>)
          /\ \A a \in GoMaps(id) : a \in DOMAIN gHeap /\ gHeap[a].owner = id
    /\ GoMaps(1) \cap GoMaps(2) = {}
    /\ \A a \in DOMAIN gHeap : gHeap[a].writers \subseteq {gHeap[a].owner}

\* the second call ran from start to successful return while the first one,
\* started before it, is still in its metric loop with scores stored
C15_Witness ==
    /\ gCalls[1].pc = "loop" /\ gCalls[1].mi = 2
    /\ gCalls[2].pc = "returned" /\ gCalls[2].ret.err = Nil
    /\ Len(gCalls[1].results) = 2 /\ Len(gCalls[2].ret.results) = 2
    /\ Len(GoMetrics(gE)) = 2
    /\ \A a \in GoMaps(1), b \in GoMaps(2) : a < b
    /\ \A a \in GoMaps(1) \cup GoMaps(2) : gHeap[a].map # EmptyMap

\* ---- what a Run returns
\* C17: every successful Run returns a dense result set: one result per item
\* of the batch, each with an entry under every registered metric name,
\* whatever score slices the metrics returned.
C17_SuccessIsDense ==
    (pc = "returned" /\ ret.err = Nil)
    => /\ Len(ret.results) = BatchSize
       /\ \A i \in 1..Len(ret.results) :
             DOMAIN ret.results[i].MetricResults = RegisteredNames

\* C18: when a metric's Compute reports an error, the failure Run returns
\* names that metric and carries the reported error as its cause, to be
\* recovered by unwrapping.
C18_FailureNamesMetricAndCause ==
    [][ (MetricStep /\ ~ComputeAt(mi).panic /\ ComputeAt(mi).err # Nil)
        => /\ pc' = "returned"
           /\ ret'.err.type = "wrap"
           /\ ret'.err.name = MetricAt(mi).Name
           /\ ret'.err.cause = ComputeAt(mi).err ]_vars

\* the second of two metrics reported its function's own error
C18_Witness ==
    /\ pc = "returned" /\ ret.err.type = "wrap"
    /\ mi = 2 /\ MetricCount = 2
    /\ MetricAt(1).Name # MetricAt(2).Name
    /\ ret.err.name = MetricAt(2).Name
    /\ ret.err.cause = ComputeFailed
    /\ Len(invoked) = 2

\* ---- the built-in score functions
Returned(name) == fPc = "returned" /\ fFunc = name

\* C19: RatioScore(0, p) is 0 for every p; RatioScore(r, p) is the quotient
\* p / r for every other r (exactly p / r where that quotient is a value of
\* the format); every call returns a value.
C19_RatioGuardsZero ==
    Returned("RatioScore")
    => /\ fOut \in Floats
       /\ fR = 0 => fOut = 0
       /\ fR # 0 => fOut = FDiv(fP, fR)
       /\ (fR # 0 /\ fR \in FMags /\ fP \in FMags /\ fP % fR = 0
             /\ One * (fP \div fR) \in FMags)
          => fOut = One * (fP \div fR)

\* a zero reference score with a prediction score other than zero
C19_Witness ==
    /\ Returned("RatioScore")
    /\ fR = 0 /\ fP = One
    /\ fOut = 0

\* C20: AverageScore(r, p) equals AverageScore(p, r), and DifferenceScore(r, p)
\* equals the negation of DifferenceScore(p, r), for all r and p.
C20_AverageSymmetricDifferenceAntisymmetric ==
    /\ Returned("AverageScore") => fOut = AverageScore(fP, fR)
    /\ Returned("DifferenceScore") => fOut = FNeg(DifferenceScore(fP, fR))

\* unequal finite scores whose average is finite and not zero
C20_Witness ==
    /\ Returned("AverageScore")
    /\ fR = One /\ fP = -Two
    /\ fOut \in Floats \ {0, NaN, PosInf, NegInf}

\* ---- cancellation between two metrics
\* C21: when the context becomes done after Run has started and before the
\* k-th metric's Compute is entered, that iteration invokes no metric
\* function and ends Run with a failure whose cause is the context's error
\* and with no results, whatever earlier metrics have stored; no later
\* metric is invoked either.
C21_CancelBetweenMetricsStopsRun ==
    /\ [][ (MetricStep /\ ctx # Nil)
           => /\ invoked' = invoked
              /\ pc' = "returned"
              /\ ret'.nil /\ ret'.results = <<>>
              /\ ret'.err.type = "wrap" /\ ret'.err.cause = ctx ]_vars
    /\ [][ (pc = "returned" /\ ctx # Nil) => invoked' = invoked ]_vars


\* ---- one Compute call per metric
\* the batch as Run hands it to the metrics, in input order
BatchReferences == [i \in 1..Len(instances) |-> instances[i].Reference]

BatchPredictions ==
    IF e.kind = "PairwiseEvaluation"
    THEN [i \in 1..Len(instances) |-> instances[i].Prediction]
    ELSE predictions

\* the one call the k-th metric's function gets
ExpectedCall(k) ==
    IF k <= Len(e.pairwiseMetrics)
    THEN Call(MetricAt(k), BatchReferences, BatchPredictions)
    ELSE Call(MetricAt(k), <<>>, BatchPredictions)

\* C22: during one Run every registered metric is computed at most once, by
\* a single call that carries the whole batch in input order: the k-th call
\* made is the k-th metric's, no metric is called per item or a second time,
\* and in a successful Run every metric has been called exactly once.
C22_OneWholeBatchCallPerMetric ==
    /\ Len(invoked) <= MetricCount
    /\ \A k \in 1..Len(invoked) : invoked[k] = ExpectedCall(k)
    /\ pc # "idle" => mi <= MetricCount + 1 /\ Len(invoked) <= mi
    /\ (pc = "returned" /\ ret.err = Nil) => Len(invoked) = MetricCount

\* a Run over two items with two metrics succeeded after two calls
C22_Witness ==
    /\ pc = "returned" /\ ret.err = Nil
    /\ MetricCount = 2 /\ BatchSize = 2
    /\ Len(invoked) = 2
    /\ Len(invoked[1].predictions) = 2 /\ Len(invoked[2].predictions) = 2


\* ---- the Run functions of PairwiseEvaluation and PointwiseEvaluation alone
RunnerInit ==
    /\ e \in {r \in Runners :
                 r.kind \in {"PairwiseEvaluation", "PointwiseEvaluation"}}
    /\ Init

RunnerNext ==
    \/ PairwiseRunStart \/ PairwiseRunMetric \/ PairwiseRunReturn
    \/ PointwiseRunStart \/ PointwiseRunMetric \/ PointwiseRunReturn
    \/ Cancel

RunnerSpec == RunnerInit /\ [][RunnerNext]_vars

\* the scores the k-th metric's function returns for the batch
ReturnedScores(k) ==
    IF k <= Len(e.pairwiseMetrics)
    THEN PairwiseMetricFunc(MetricAt(k).compute,
                            BatchReferences, BatchPredictions).scores
    ELSE PointwiseMetricFunc(MetricAt(k).compute, BatchPredictions).scores

\* the k-th metric is the last one registered under its name that returned a
\* score for item i
LastWriter(k, i) ==
    /\ i <= Len(ReturnedScores(k))
    /\ \A j \in (k + 1)..MetricCount :
          MetricAt(j).Name = MetricAt(k).Name => i > Len(ReturnedScores(j))

\* C23: a successful Run of a PointwiseEvaluation returns one result per
\* prediction, in input order, whose Prediction is that prediction; one of a
\* PairwiseEvaluation returns one result per instance whose Instance is that
\* instance; and the score found under a metric's name in the i-th result is
\* the i-th score that metric returned for the batch.
C23_ResultsFollowInputOrder ==
    (pc = "returned" /\ ret.err = Nil)
    => /\ ~ret.nil
       /\ Len(ret.results) = BatchSize
       /\ \A i \in 1..BatchSize :
             /\ IF e.kind = "PointwiseEvaluation"
                THEN ret.results[i].Prediction = predictions[i]
                ELSE ret.results[i].Instance = instances[i]
             /\ \A k \in 1..MetricCount :
                   LastWriter(k, i)
                   => /\ MetricAt(k).Name \in DOMAIN ret.results[i].MetricResults
                      /\ ret.results[i].MetricResults[MetricAt(k).Name]
                            = ReturnedScores(k)[i]

\* a Run returned two results whose scores, taken from the one metric's
\* answer at the same index, differ from one item to the other
C23_Witness ==
    /\ pc = "returned" /\ ret.err = Nil
    /\ MetricCount = 1 /\ BatchSize = 2
    /\ Len(ReturnedScores(1)) = 2
    /\ ReturnedScores(1)[1] # ReturnedScores(1)[2]
    /\ ret.results[1].MetricResults[MetricAt(1).Name] = ReturnedScores(1)[1]
    /\ ret.results[2].MetricResults[MetricAt(1).Name] = ReturnedScores(1)[2]


\* ---- metrics of one runner under one name
\* the metrics answer every call with a nil error and no more scores than
\* the batch has items
NoMetricFails ==
    \A k \in 1..MetricCount : MetricAt(k).compute \notin {"fail", "long"}

\* the names under which some metric returned a score for item i
NamesScoring(i) ==
    {MetricAt(k).Name : k \in {j \in 1..MetricCount : i <= Len(ReturnedScores(j))}}

\* C25: when two metrics of one PairwiseEvaluation or PointwiseEvaluation
\* share a name, Run does not fail on that account: with metrics that do not
\* fail, on a non-empty batch under a live context, it returns results; each
\* result holds one entry per distinct name, and the entry under the shared
\* name is the score of the metric registered later.
C25_DuplicateNameLaterWins ==
    ~DistinctNames
    => /\ (Ended /\ ctx = Nil /\ BatchSize > 0 /\ NoMetricFails)
          => pc = "returned" /\ ret.err = Nil
       /\ (pc = "returned" /\ ret.err.type = "wrap")
          => MetricAt(mi).compute = "fail" \/ ctx # Nil
       /\ (pc = "returned" /\ ret.err = Nil)
          => \A i \in 1..Len(ret.results) :
                /\ DOMAIN ret.results[i].MetricResults = NamesScoring(i)
                /\ Cardinality(DOMAIN ret.results[i].MetricResults)
                      <= Cardinality(RegisteredNames)
                /\ \A k \in 1..MetricCount :
                      LastWriter(k, i)
                      => ret.results[i].MetricResults[MetricAt(k).Name]
                            = ReturnedScores(k)[i]

\* two pairwise metrics named alike whose scores differ: the one entry of
\* each result is the second metric's score
C25_Witness ==
    /\ e.kind = "PairwiseEvaluation"
    /\ pc = "returned" /\ ret.err = Nil
    /\ MetricCount = 2 /\ MetricAt(1).Name = MetricAt(2).Name
    /\ MetricAt(1).compute = "exact" /\ MetricAt(2).compute = "lendiff"
    /\ Len(ret.results) = 2
    /\ Cardinality(DOMAIN ret.results[2].MetricResults) = 1
    /\ ret.results[2].MetricResults[MetricAt(2).Name] = ReturnedScores(2)[2]
    /\ ReturnedScores(2)[2] # ReturnedScores(1)[2]


\* ---- Run called a second time on the same runner with the same batch
\* the caller keeps what the first call returned and calls Run again; the
\* second call starts with fresh locals
RunAgain ==
    /\ pc = "returned" /\ hFirst = NoReturn
    /\ hFirst' = ret
    /\ pc' = "idle"
    /\ predictions' = (IF e.kind = "PairwiseEvaluation" THEN <<>> ELSE predictions)
    /\ references' = <<>>
    /\ results' = <<>>
    /\ mi' = 1
    /\ ret' = NoReturn
    /\ invoked' = <<>>
    /\ UNCHANGED <<e, ctx, instances>>
    /\ UNCHANGED <<tpVars, callVars, sliceVars, concVars, scoreVars, hHeld>>

RepeatNext == Next \/ RunAgain

RepeatSpec == Init /\ [][RepeatNext]_vars

\* C24: Run leaves the runner and its inputs as they were: no step of Run, on
\* the way to a success or to a failure, changes the runner's metric lists or
\* the caller's batch; and a second Run on the same runner with the same
\* batch, the context being in the state it was in for the first, returns
\* what the first returned.
C24_RunLeavesRunnerAndInputs ==
    /\ [][ /\ e' = e
           /\ instances' = instances
           /\ e.kind # "PairwiseEvaluation" => predictions' = predictions ]_vars
    /\ []( (hFirst # NoReturn /\ pc = "returned" /\ (ctx = Nil \/ hFirst.err = ctx))
           => ret = hFirst )

\* the second of two Runs with two metrics on two items returned the scores
\* the first had returned
C24_Witness ==
    /\ hFirst # NoReturn /\ pc = "returned"
    /\ hFirst.err = Nil /\ ret = hFirst
    /\ MetricCount = 2 /\ Len(ret.results) = 2
    /\ \A i \in 1..2 : DOMAIN ret.results[i].MetricResults # {}


\* ---- the caller's PointwiseMetric variable after ToPairwise
\* metric = other: the caller assigns another metric to the variable
\* ToPairwise was called on (a range loop that reuses its variable does so at
\* each iteration)
Reassign ==
    /\ tpPc = "converted"
    /\ tpM' \in PointwiseMetrics \ {tpM}
    /\ UNCHANGED <<tpScoreFunc, tpMetric, tpCtx, tpReferences, tpPredictions,
                   tpPc, tpReferenceScores, tpRet, tpCalls>>
    /\ UNCHANGED <<runVars, extVars>>

AliasInit ==
    /\ tpScoreFunc = "DifferenceScore"
    /\ tpCtx = Nil
    /\ AdapterInit

AliasNext ==
    \/ ToPairwise
    \/ Reassign
    \/ ToPairwiseCompute
    \/ ClosureReferenceScores
    \/ ClosurePredictionScores

AliasSpec == AliasInit /\ [][AliasNext]_vars

\* C26: the pairwise metric ToPairwise returned keeps computing with the
\* function the source metric held when ToPairwise was called: whatever is
\* assigned afterwards to the variable it was called on, every call the
\* adapted metric makes goes to that function, and the scores it returns are
\* scoreFunc of that function's scores.
C26_AdapterKeepsConversionTimeFunction ==
    /\ \A k \in 1..Len(tpCalls) : tpCalls[k].compute = hHeld.compute
    /\ TpSucceeded
       => \A i \in 1..Len(tpRet.scores) :
             tpRet.scores[i] =
                 ApplyScoreFunc(tpScoreFunc,
                     PointwiseMetricFunc(hHeld.compute, tpReferences).scores[i],
                     PointwiseMetricFunc(hHeld.compute, tpPredictions).scores[i])


\* ---- the adapter and a function that breaks the one-score-per-input rule
\* C27: whatever the pointwise function returns, too few or too many scores
\* included, the adapted metric's Compute ends by returning either a failure
\* or exactly one score per reference; it never stops on an index out of
\* range.
C27_AdapterNeverFaults ==
    /\ tpPc # "panicked"
    /\ TpSucceeded => Len(tpRet.scores) = Len(tpReferences)


\* ---- the Run functions of the combined runner alone
CombinedInit ==
    /\ e \in {r \in Runners : r.kind \in {"Evaluation", "EvaluationEvalGo"}}
    /\ Init

CombinedNext ==
    \/ EvaluationRunStart \/ EvaluationRunPairwiseMetric
    \/ EvaluationRunPointwiseMetric \/ EvaluationRunReturn
    \/ EvalGoRunStart \/ EvalGoRunPairwiseMetric
    \/ EvalGoRunPointwiseMetric \/ EvalGoRunReturn
    \/ Cancel

CombinedSpec == CombinedInit /\ [][CombinedNext]_vars

InvalidBatch ==
    \/ BatchSize = 0
    \/ IsCombined /\ Len(instances) # Len(predictions)

\* C29: Run looks at the context before it validates the batch: called with
\* a context that is already done and an empty or count-mismatched batch, it
\* returns the context's error and not an invalid-input failure.
C29_ContextCheckedBeforeBatch ==
    [][ (pc = "idle" /\ pc' # pc /\ ctx # Nil /\ InvalidBatch)
        => /\ pc' = "returned"
           /\ ret'.err = ctx
           /\ ~IsInvalidInput(ret'.err)
           /\ ret'.nil ]_vars

\* the combined runner, given a cancelled context and fewer predictions than
\* instances, returned the cancellation
C29_Witness ==
    /\ e.kind = "Evaluation" /\ MetricCount > 0
    /\ pc = "returned" /\ ret.err = Canceled
    /\ Len(instances) = 2 /\ Len(predictions) = 1
    /\ invoked = <<>>


\* ---- AbsoluteDifferenceScore, MaxScore and MinScore
\* a <= b on float64: false when an operand is NaN
FLessEq(a, b) == a # NaN /\ b # NaN /\ a <= b

\* C30 as stated: for all r and p, AbsoluteDifferenceScore(r, p) is
\* non-negative, equals AbsoluteDifferenceScore(p, r) and equals
\* DifferenceScore(r, p) or its negation; MaxScore(r, p) and MinScore(r, p)
\* each return one of their two arguments, with
\* MinScore(r, p) <= r, p <= MaxScore(r, p).
C30_AbsMaxMinForAllInputs ==
    /\ Returned("AbsoluteDifferenceScore")
       => /\ FLessEq(0, fOut)
          /\ fOut = AbsoluteDifferenceScore(fP, fR)
          /\ fOut \in {DifferenceScore(fR, fP), FNeg(DifferenceScore(fR, fP))}
    /\ Returned("MaxScore")
       => /\ fOut \in {fR, fP}
          /\ FLessEq(fR, fOut) /\ FLessEq(fP, fOut)
    /\ Returned("MinScore")
       => /\ fOut \in {fR, fP}
          /\ FLessEq(fOut, fR) /\ FLessEq(fOut, fP)

\* C30 amended: for all r and p, AbsoluteDifferenceScore(r, p) equals
\* AbsoluteDifferenceScore(p, r) and equals DifferenceScore(r, p) or its
\* negation, and it is non-negative unless p - r is NaN (an operand is NaN or
\* both are the same infinity), when it is NaN; MaxScore(r, p) and
\* MinScore(r, p) each return one of their two arguments, with
\* MinScore(r, p) <= r, p <= MaxScore(r, p) whenever neither r nor p is NaN.
C30_AbsMaxMinExceptNaN ==
    /\ Returned("AbsoluteDifferenceScore")
       => /\ fOut = AbsoluteDifferenceScore(fP, fR)
          /\ fOut \in {DifferenceScore(fR, fP), FNeg(DifferenceScore(fR, fP))}
          /\ IF fR = NaN \/ fP = NaN \/ (IsInf(fR) /\ fR = fP)
             THEN fOut = NaN
             ELSE FLessEq(0, fOut)
    /\ Returned("MaxScore")
       => /\ fOut \in {fR, fP}
          /\ (fR # NaN /\ fP # NaN) => FLessEq(fR, fOut) /\ FLessEq(fP, fOut)
    /\ Returned("MinScore")
       => /\ fOut \in {fR, fP}
          /\ (fR # NaN /\ fP # NaN) => FLessEq(fOut, fR) /\ FLessEq(fOut, fP)

\* a prediction score below the reference score: the difference is negated
C30_Witness ==
    /\ Returned("AbsoluteDifferenceScore")
    /\ fR = Two /\ fP = One
    /\ fOut = One
    /\ DifferenceScore(fR, fP) = -One

====
